---- MODULE Spec2Model ----
(***************************************************************************)
(* Progress state machine and synchronisation engine of chem-review-pwa.   *)
(*                                                                         *)
(* One browser tab (the React component App) is modelled together with the *)
(* localStorage key it shares with other tabs.  A step of the model is one *)
(* event callback of the page (a click handler, a timer, a storage or      *)
(* visibility notification) run to completion, including the re-render it  *)
(* causes and the effects React runs for that render.  Other tabs are the  *)
(* environment: they write the key and the browser queues a storage event  *)
(* for this tab.                                                           *)
(***************************************************************************)
EXTENDS Integers, Sequences, FiniteSets, TLC

\* ------------------------------------------------------------------------
\* Bounds of the exploration (not program constants)
\* ------------------------------------------------------------------------
\* largest value of the wall clock: every user operation and every write of
\* another tab happens at a later instant than the one before
MaxTime == 3
\* storage events that can be queued for this tab at once
MaxEvents == 1
\* auto-advance timers of the diagnostic view that can be pending at once
MaxTimers == 1

\* ------------------------------------------------------------------------
\* Program constants
\* ------------------------------------------------------------------------
\* submitDiagnostic / regeneratePlan: pickPlan(perSkill, 7)
PlanDays == 7
\* applyImportedProgress: the format version an import is compared with
CurrentVersion == 1

\* the empty time stamp '' (savedAt, lastExportedAt)
NoTime == 0

\* ------------------------------------------------------------------------
\* Content (skills.js), cut down to two skills with one diagnostic and one
\* practice question each; every question has two choices.
\* ------------------------------------------------------------------------
SKILLS ==
  << [id |-> "mole",
      diagnostic |-> << [id |-> "mole_d1", answer |-> 0, choicesLen |-> 2] >>,
      practice |-> << "mole_p1" >>],
     [id |-> "molar-mass",
      diagnostic |-> << [id |-> "mm_d1", answer |-> 1, choicesLen |-> 2] >>,
      practice |-> << "mm_p1" >>] >>

RECURSIVE Flatten(_)
Flatten(ss) == IF ss = <<>> THEN <<>> ELSE Head(ss) \o Flatten(Tail(ss))

getAllDiagnosticQuestions ==
  Flatten([i \in 1..Len(SKILLS) |-> SKILLS[i].diagnostic])

getPracticeQuestionsForSkill(skillId) ==
  IF \E i \in 1..Len(SKILLS) : SKILLS[i].id = skillId
  THEN (CHOOSE s \in {SKILLS[i] : i \in 1..Len(SKILLS)} : s.id = skillId).practice
  ELSE <<>>

allQuestions == getAllDiagnosticQuestions

skillIdSet == {SKILLS[i].id : i \in 1..Len(SKILLS)}

Range(f) == {f[x] : x \in DOMAIN f}

\* ------------------------------------------------------------------------
\* Mastery Calculator and Plan Generator
\* ------------------------------------------------------------------------
\* Math.round(x) for x = (100 * c) / a >= 0, a > 0: round half up
RoundPct(c, a) == (200 * c + a) \div (2 * a)

RECURSIVE CountIf(_, _, _)
CountIf(qs, answersByQid, onlyCorrect) ==
  IF qs = <<>> THEN 0
  ELSE LET q == Head(qs)
           hit == /\ q.id \in DOMAIN answersByQid
                  /\ (onlyCorrect => answersByQid[q.id] = q.answer)
       IN (IF hit THEN 1 ELSE 0) + CountIf(Tail(qs), answersByQid, onlyCorrect)

computeMasteryOverTotal(skills, answersByQid) ==
  [i \in 1..Len(skills) |->
     LET qs == skills[i].diagnostic
         total == Len(qs)
         correct == CountIf(qs, answersByQid, TRUE)
         answered == CountIf(qs, answersByQid, FALSE)
     IN IF total = 0
        THEN [skillId |-> skills[i].id, correct |-> 0, answered |-> 0,
              total |-> 0, mastery |-> 0]
        ELSE [skillId |-> skills[i].id, correct |-> correct,
              answered |-> answered, total |-> total,
              mastery |-> RoundPct(correct, total)]]

\* one entry per skill, in the insertion order of the object perSkill
computeMastery(skills, answersByQid) ==
  [i \in 1..Len(skills) |->
     LET qs == skills[i].diagnostic
         total == Len(qs)
         correct == CountIf(qs, answersByQid, TRUE)
         answered == CountIf(qs, answersByQid, FALSE)
     IN IF total = 0
        THEN [skillId |-> skills[i].id, correct |-> 0, answered |-> 0,
              total |-> 0, mastery |-> 0]
        ELSE [skillId |-> skills[i].id, correct |-> correct,
              answered |-> answered, total |-> total,
              mastery |-> IF answered > 0 THEN RoundPct(correct, answered) ELSE 0]]

\* insert x into the sorted sequence s after every entry with mastery <= x's
RECURSIVE InsertStable(_, _)
InsertStable(x, s) ==
  IF s = <<>> THEN <<x>>
  ELSE IF Head(s).mastery <= x.mastery
       THEN <<Head(s)>> \o InsertStable(x, Tail(s))
       ELSE <<x>> \o s

\* Array.prototype.sort((a, b) => a.mastery - b.mastery): stable, ascending
RECURSIVE SortByMastery(_)
SortByMastery(s) ==
  IF s = <<>> THEN <<>>
  ELSE InsertStable(s[Len(s)], SortByMastery(SubSeq(s, 1, Len(s) - 1)))

RECURSIVE FilterTotal(_)
FilterTotal(s) ==
  IF s = <<>> THEN <<>>
  ELSE (IF Head(s).total > 0 THEN <<Head(s)>> ELSE <<>>) \o FilterTotal(Tail(s))

pickPlanOnePass(perSkill, days) ==
  LET allRanked == SortByMastery(perSkill)
      ranked == FilterTotal(allRanked)
      pool == IF Len(ranked) > 0 THEN ranked ELSE allRanked
  IN [i \in 1..(IF days <= Len(pool) THEN days ELSE Len(pool)) |-> pool[i].skillId]

pickPlanUnfiltered(perSkill, days) ==
  LET pool == SortByMastery(perSkill)
  IN IF Len(pool) = 0 THEN <<>>
     ELSE [i \in 1..days |-> pool[((i - 1) % Len(pool)) + 1].skillId]

pickPlan(perSkill, days) ==
  LET allRanked == SortByMastery(perSkill)
      ranked == FilterTotal(allRanked)
      pool == IF Len(ranked) > 0 THEN ranked ELSE allRanked
  IN IF Len(pool) = 0 THEN <<>>
     ELSE [i \in 1..days |-> pool[((i - 1) % Len(pool)) + 1].skillId]

\* ------------------------------------------------------------------------
\* Progress Record and JSON values
\* ------------------------------------------------------------------------
RecordFields ==
  {"plan", "dayIndex", "answers", "dayProgress", "revealed", "autoNext",
   "shufflePractice", "savedAt", "lastExportedAt"}

\* the record of a first run: every useState initialiser's fallback
DefaultRecord ==
  [plan |-> <<>>, dayIndex |-> 0, answers |-> <<>>, dayProgress |-> <<>>,
   revealed |-> <<>>, autoNext |-> TRUE, shufflePractice |-> FALSE,
   savedAt |-> NoTime, lastExportedAt |-> NoTime]

\* A JSON text or value.  tag: "absent" (no value under the key), "text" (not
\* JSON), "num", "str", "array", or "object".  For an object, bad is the set of
\* fields that are missing or hold a value of the wrong type, version is the
\* value of its version field ("version" \in bad: no such field) and rec holds
\* the well-typed fields.
JValue(tag) == [tag |-> tag, bad |-> {}, version |-> CurrentVersion, rec |-> DefaultRecord]
Absent == JValue("absent")
JObject(bad, version, rec) == [tag |-> "object", bad |-> bad, version |-> version, rec |-> rec]

\* JSON.stringify of a persisted payload (no version field)
Stringify(payload) == JObject({"version"}, CurrentVersion, payload)

\* safeParse(json, null) !== null and typeof === 'object'
IsObjectLike(v) == v.tag \in {"array", "object"}

\* typeof field === expected type; an array has none of the record's fields
FieldOk(v, f) == v.tag = "object" /\ f \notin v.bad


\* ------------------------------------------------------------------------
\* State
\* ------------------------------------------------------------------------
VARIABLES
  plan, dayIndex, answers, dayProgress, revealed, autoNext, shufflePractice,
  savedAt, lastExportedAt,         \* React state: the Progress Record
  storageWritable,                 \* React state: Storage-Unavailable indicator
  skipNextPersistRef,              \* ref: suppress the next persist effect
  didAutoJumpToNextIncompleteRef,  \* ref: the one-time day snap was decided
  lastPersistPayloadRef,           \* ref: <<>> (null) or <<payload>>
  persistTimer,                    \* the debounce timer of the persist effect is pending
  storage,                         \* localStorage[STORAGE_KEY]
  storageEvents,                   \* storage events queued for this tab (newValue)
  storageFails,                    \* localStorage.setItem / removeItem throw
  now,                             \* wall clock
  lastOp,                          \* history: what last replaced or edited the record
  prevOp,                          \* history: the value of lastOp before that
  superseded,                      \* history: the last persist effect found the
                                   \* timer of the one before still pending
  lastImport,                      \* history: <<x>> while the import of the text
                                   \* x is the latest operation, else <<>>
  clipboard,                       \* <<payload>> while the latest operations are
                                   \* an export and imports after it, else <<>>
  undisturbed,                     \* history: a user mutation happened and nothing
                                   \* but flushes and cursor moves came after it
  content,                         \* the topic list the build ships (skills.js)
  calc,                            \* the latest result of the Mastery Calculator
                                   \* and the Plan Generator applied on their own
  advanceTimers,                   \* pending 120 ms timers of chooseDiagnosticAnswer:
                                   \* what each callback closed over
  tabs,                            \* two tabs of one browser sharing localStorage:
                                   \* the component state of each (<<>> when one
                                   \* tab alone is followed)
  diagIndex,                       \* React state: question cursor of the diagnostic view
  alerted                          \* the window.alert the latest step raised

recVars == <<plan, dayIndex, answers, dayProgress, revealed, autoNext,
             shufflePractice, savedAt, lastExportedAt>>
refVars == <<skipNextPersistRef, didAutoJumpToNextIncompleteRef,
             lastPersistPayloadRef, persistTimer>>
envVars == <<storage, storageEvents, storageFails, now>>
histVars == <<lastOp, prevOp, superseded, lastImport, clipboard, undisturbed>>
uiVars == <<diagIndex, alerted>>
vars == <<recVars, storageWritable, refVars, envVars, histVars, uiVars, content, calc,
          advanceTimers, tabs>>

\* one tab alone is followed
NoTabs == <<>>

\* window.alert: none, or its kind and the question position it names
NoAlert == [kind |-> "none", at |-> 0]
Alert(kind, at) == [kind |-> kind, at |-> at]
\* a step that raises no alert and leaves the question cursor alone; no step
\* changes what the build ships
Quiet == diagIndex' = diagIndex /\ alerted' = NoAlert /\ UNCHANGED <<content, calc, tabs, advanceTimers>>

\* the Progress Record held in memory
Mem ==
  [plan |-> plan, dayIndex |-> dayIndex, answers |-> answers,
   dayProgress |-> dayProgress, revealed |-> revealed, autoNext |-> autoNext,
   shufflePractice |-> shufflePractice, savedAt |-> savedAt,
   lastExportedAt |-> lastExportedAt]

\* the fields the persist effect depends on and a flush is meant to carry
Persisted(r) ==
  [plan |-> r.plan, dayIndex |-> r.dayIndex, answers |-> r.answers,
   dayProgress |-> r.dayProgress, revealed |-> r.revealed,
   autoNext |-> r.autoNext, shufflePractice |-> r.shufflePractice]

\* ------------------------------------------------------------------------
\* Persistence Adapter
\* ------------------------------------------------------------------------
\* storageSet: the value of the key afterwards
storageSet(old, value, fails) == IF fails THEN old ELSE value
\* storageRemove: the value of the key afterwards
storageRemove(old, fails) == IF fails THEN old ELSE Absent

\* loadPersistedState: the parsed object, or a non-object (null)
loadPersistedState(raw) == IF IsObjectLike(raw) THEN raw ELSE JValue("null")

\* the useState initialisers: each field falls back on its own
InitialRecord(s) ==
  [f \in RecordFields |-> IF FieldOk(s, f) THEN s.rec[f] ELSE DefaultRecord[f]]

\* ------------------------------------------------------------------------
\* Effects run after a render
\* ------------------------------------------------------------------------
\* Boolean(v.f), and v.f as a condition: a missing sub-field is undefined,
\* hence false
BooleanOf(v, f) == f \in DOMAIN v /\ v[f]

DayDone(dp, d) ==
  d \in DOMAIN dp /\ BooleanOf(dp[d], "conceptDone") /\ BooleanOf(dp[d], "practiceDone")

\* nextIncompleteDay; -1 stands for null
nextIncompleteDay(planLen, dp) ==
  IF \E i \in 0..(planLen - 1) : ~DayDone(dp, i)
  THEN CHOOSE i \in 0..(planLen - 1) :
         /\ ~DayDone(dp, i)
         /\ \A j \in 0..(i - 1) : DayDone(dp, j)
  ELSE -1

\* Variants of the persist effect with a plausible slip each:
\* the suppression flag is not honoured,
persistEffectIgnoresSkip(m, skip, payloadRef, t) ==
  [skip |-> FALSE, payload |-> << [m EXCEPT !.savedAt = t] >>, timer |-> TRUE]
\* the suppression flag is not cleared when it is honoured,
persistEffectLeaksFlag(m, skip, payloadRef, t) ==
  IF skip
  THEN [skip |-> TRUE, payload |-> payloadRef, timer |-> FALSE]
  ELSE [skip |-> FALSE, payload |-> << [m EXCEPT !.savedAt = t] >>, timer |-> TRUE]
\* the payload of a flush is built once and not rebuilt by later mutations
persistEffectKeepsPayload(m, skip, payloadRef, t) ==
  IF skip
  THEN [skip |-> FALSE, payload |-> payloadRef, timer |-> FALSE]
  ELSE [skip |-> FALSE,
        payload |-> IF payloadRef = <<>> THEN << [m EXCEPT !.savedAt = t] >>
                    ELSE payloadRef,
        timer |-> TRUE]

\* the clean-up clears the timer and only the first run sets one.
persistEffectSchedulesOnce(m, skip, payloadRef, t) ==
  IF skip
  THEN [skip |-> FALSE, payload |-> payloadRef, timer |-> FALSE]
  ELSE [skip |-> FALSE, payload |-> << [m EXCEPT !.savedAt = t] >>,
        timer |-> (payloadRef = <<>>)]

\* The persist effect, run because one of its dependencies changed; the
\* clean-up of its previous run has cleared that run's timer.
persistEffect(m, skip, payloadRef, t) ==
  IF skip
  THEN [skip |-> FALSE, payload |-> payloadRef, timer |-> FALSE]
  ELSE [skip |-> FALSE, payload |-> << [m EXCEPT !.savedAt = t] >>, timer |-> TRUE]

\* The day-snap effect: the day to show and the new value of the ref.
autoJumpEffect(m, didJump) ==
  LET nid == nextIncompleteDay(Len(m.plan), m.dayProgress) IN
  IF didJump \/ Len(m.plan) = 0 \/ nid = -1
  THEN [dayIndex |-> m.dayIndex, didJump |-> didJump]
  ELSE IF DayDone(m.dayProgress, m.dayIndex) /\ nid # m.dayIndex
       THEN [dayIndex |-> nid, didJump |-> TRUE]
       ELSE [dayIndex |-> m.dayIndex, didJump |-> TRUE]

\* One commit: the record m was rendered; changed tells whether a dependency
\* of the persist effect changed identity.  Effects run in declaration order:
\* persist, then day snap; a snap re-renders and runs the persist effect again.
AfterRender(m, changed, skip, didJump, payloadRef, timer, t) ==
  IF ~changed
  THEN [rec |-> m, skip |-> skip, didJump |-> didJump,
        payload |-> payloadRef, timer |-> timer]
  ELSE LET e1 == persistEffect(m, skip, payloadRef, t)
           a == autoJumpEffect(m, didJump)
           m2 == [m EXCEPT !.dayIndex = a.dayIndex]
           e2 == IF a.dayIndex # m.dayIndex
                 THEN persistEffect(m2, e1.skip, e1.payload, t)
                 ELSE e1
       IN [rec |-> m2, skip |-> e2.skip, didJump |-> a.didJump,
           payload |-> e2.payload, timer |-> e2.timer]

\* the state after a handler that rendered m
Commit(m, changed, skip, didJump) ==
  LET r == AfterRender(m, changed, skip, didJump, lastPersistPayloadRef,
                       persistTimer, now)
  IN /\ plan' = r.rec.plan
     /\ dayIndex' = r.rec.dayIndex
     /\ answers' = r.rec.answers
     /\ dayProgress' = r.rec.dayProgress
     /\ revealed' = r.rec.revealed
     /\ autoNext' = r.rec.autoNext
     /\ shufflePractice' = r.rec.shufflePractice
     /\ savedAt' = r.rec.savedAt
     /\ lastExportedAt' = r.rec.lastExportedAt
     /\ skipNextPersistRef' = r.skip
     /\ didAutoJumpToNextIncompleteRef' = r.didJump
     /\ lastPersistPayloadRef' = r.payload
     /\ persistTimer' = r.timer
     /\ superseded' = IF changed THEN persistTimer ELSE superseded

\* history: op is the latest operation on the record
UserOps == {"user", "timer", "restart"}
Mark(op) ==
  /\ lastOp' = op
  /\ prevOp' = lastOp
  /\ lastImport' = <<>>
  /\ clipboard' = <<>>
  /\ undisturbed' = (op \in UserOps)

\* ------------------------------------------------------------------------
\* Initial state: the component has mounted
\* ------------------------------------------------------------------------
\* a record another run of the app left behind: a plan with day 1 complete
PlanMoleFirst == pickPlan(computeMastery(SKILLS, <<>>), PlanDays)
DoneDay == [conceptDone |-> TRUE, practiceDone |-> TRUE]
StoredPlanRecord ==
  [DefaultRecord EXCEPT !.plan = PlanMoleFirst,
                        !.answers = ("mole_d1" :> 1) @@ ("mm_d1" :> 1),
                        !.dayProgress = (0 :> DoneDay),
                        !.savedAt = 1]

\* a record an older build left behind, naming a topic and a question that
\* the content no longer has
OlderBuildRecord ==
  [DefaultRecord EXCEPT !.plan = <<"gas-laws", "mole">>,
                        !.answers = ("gas_d1" :> 0),
                        !.savedAt = 1]

\* a stored record one field of which has the wrong type (dayIndex a string)
WrongTypeStored == JObject({"version", "dayIndex"}, CurrentVersion, StoredPlanRecord)

InitialStored ==
  {Absent, JValue("text"), Stringify(StoredPlanRecord), Stringify(OlderBuildRecord),
   WrongTypeStored}

\* the component has mounted over the stored value v
Mounted(v, fails) ==
    LET r == AfterRender(InitialRecord(loadPersistedState(v)), TRUE, FALSE,
                         FALSE, <<>>, FALSE, 1)
    IN /\ plan = r.rec.plan
       /\ dayIndex = r.rec.dayIndex
       /\ answers = r.rec.answers
       /\ dayProgress = r.rec.dayProgress
       /\ revealed = r.rec.revealed
       /\ autoNext = r.rec.autoNext
       /\ shufflePractice = r.rec.shufflePractice
       /\ savedAt = r.rec.savedAt
       /\ lastExportedAt = r.rec.lastExportedAt
       /\ storageWritable = ~fails
       /\ skipNextPersistRef = r.skip
       /\ didAutoJumpToNextIncompleteRef = r.didJump
       /\ lastPersistPayloadRef = r.payload
       /\ persistTimer = r.timer
       /\ storage = v
       /\ storageEvents = <<>>
       /\ storageFails = fails
       /\ now = 1
       /\ lastOp = "mount"
       /\ prevOp = "none"
       /\ lastImport = <<>>
       /\ clipboard = <<>>
       /\ superseded = FALSE
       /\ undisturbed = FALSE
       /\ diagIndex = 0
       /\ alerted = NoAlert
       /\ advanceTimers = <<>>

\* neither function has been applied on its own (days: -1 nothing computed,
\* 0 only the mastery, else the days pickPlan was called with)
NoCalc == [perSkill |-> <<>>, days |-> -1, plan |-> <<>>]

Init ==
  /\ content = SKILLS
  /\ calc = NoCalc
  /\ tabs = NoTabs
  /\ \E v \in InitialStored, fails \in BOOLEAN : Mounted(v, fails)

\* ------------------------------------------------------------------------
\* Debounced Flush Scheduler
\* ------------------------------------------------------------------------
\* persistNow: write the payload of the last persist effect, if any
\* variant with a plausible slip: the outcome of the write is shown only
\* when it succeeded
persistNowSilent ==
  IF lastPersistPayloadRef = <<>>
  THEN UNCHANGED <<storage, storageWritable, savedAt>>
  ELSE LET payload == lastPersistPayloadRef[1]
           ok == ~storageFails
       IN /\ storage' = storageSet(storage, Stringify(payload), storageFails)
          /\ storageWritable' = (ok \/ storageWritable)
          /\ savedAt' = IF ok THEN payload.savedAt ELSE savedAt

persistNow ==
  IF lastPersistPayloadRef = <<>>
  THEN UNCHANGED <<storage, storageWritable, savedAt>>
  ELSE LET payload == lastPersistPayloadRef[1]
           ok == ~storageFails
       IN /\ storage' = storageSet(storage, Stringify(payload), storageFails)
          /\ storageWritable' = ok
          /\ savedAt' = IF ok THEN payload.savedAt ELSE savedAt

\* the 250 ms timer of the persist effect fires
PersistTimerFires ==
  /\ persistTimer
  /\ persistTimer' = FALSE
  /\ persistNow
  /\ UNCHANGED <<plan, dayIndex, answers, dayProgress, revealed, autoNext,
                 shufflePractice, lastExportedAt, skipNextPersistRef,
                 didAutoJumpToNextIncompleteRef, lastPersistPayloadRef,
                 storageEvents, storageFails, now, histVars>>
  /\ Quiet

\* onVisibilityChange (hidden) / onPageHide
ForcedFlush ==
  /\ persistNow
  /\ UNCHANGED <<plan, dayIndex, answers, dayProgress, revealed, autoNext,
                 shufflePractice, lastExportedAt, refVars,
                 storageEvents, storageFails, now, histVars>>
  /\ Quiet

\* the instant of the next operation
Later ==
  /\ now < MaxTime
  /\ now' = now + 1

\* ------------------------------------------------------------------------
\* User mutations
\* ------------------------------------------------------------------------
\* a click handler that rendered the record m
UserCommit(m, changed) ==
  /\ Later
  /\ Commit(m, changed, skipNextPersistRef, didAutoJumpToNextIncompleteRef)
  /\ Mark("user")
  /\ Quiet
  /\ UNCHANGED <<storageWritable, storage, storageEvents, storageFails>>

Max(a, b) == IF a >= b THEN a ELSE b
Min(a, b) == IF a <= b THEN a ELSE b

QuestionIds == {allQuestions[i].id : i \in 1..Len(allQuestions)}
ChoicesLen(qid) == (CHOOSE q \in Range(allQuestions) : q.id = qid).choicesLen

\* currentQ: the question under the cursor
currentQ == allQuestions[diagIndex + 1]

\* the callback chooseDiagnosticAnswer hands to setTimeout: atIndex, and the
\* submitDiagnostic of the render the click happened in, which closed over
\* the Answer Map of that render
Closure(atIndex) ==
  [isLast |-> atIndex >= Len(allQuestions) - 1, answers |-> answers]

chooseDiagnosticAnswer(qid, idx, atIndex) ==
  /\ autoNext => Len(advanceTimers) < MaxTimers
  /\ Later
  /\ Commit([Mem EXCEPT !.answers = (qid :> idx) @@ answers], TRUE,
            skipNextPersistRef, didAutoJumpToNextIncompleteRef)
  /\ Mark("user")
  /\ diagIndex' = diagIndex /\ alerted' = NoAlert
  /\ advanceTimers' = IF autoNext THEN Append(advanceTimers, Closure(atIndex))
                      ELSE advanceTimers
  /\ UNCHANGED <<storageWritable, storage, storageEvents, storageFails, content, calc, tabs>>

\* a choice button of the question shown (or the keys A-D, 1-4)
ChooseDiagnosticAnswer ==
  \E idx \in 0..(currentQ.choicesLen - 1) :
    chooseDiagnosticAnswer(currentQ.id, idx, diagIndex)

clearDiagnosticAnswer(qid) ==
  /\ qid \in DOMAIN answers
  /\ UserCommit([Mem EXCEPT !.answers = [q \in DOMAIN answers \ {qid} |-> answers[q]]],
                TRUE)

\* the "clear this answer" button of the question shown (or the key C)
ClearDiagnosticAnswer == clearDiagnosticAnswer(currentQ.id)

\* the auto-advance switch of the diagnostic view
ToggleAutoNext == UserCommit([Mem EXCEPT !.autoNext = ~autoNext], TRUE)

\* index (from 0) of the first question without an answer, -1 if none
firstUnanswered(ans) ==
  IF \E i \in 1..Len(allQuestions) : allQuestions[i].id \notin DOMAIN ans
  THEN (CHOOSE i \in 1..Len(allQuestions) :
          /\ allQuestions[i].id \notin DOMAIN ans
          /\ \A j \in 1..(i - 1) : allQuestions[j].id \in DOMAIN ans) - 1
  ELSE -1

\* a handler that sets the question cursor and no record state
ShowQuestion(alert, cursor) ==
  /\ alerted' = alert
  /\ diagIndex' = cursor
  /\ UNCHANGED <<recVars, storageWritable, refVars, envVars, histVars, content, calc, tabs>>

\* a handler that ends with window.alert and sets no record state
Refuse(alert, cursor) ==
  /\ Later
  /\ alerted' = alert
  /\ diagIndex' = cursor
  /\ UNCHANGED <<recVars, storageWritable, refVars, storage, storageEvents,
                 storageFails, histVars, content, calc, tabs,
                 advanceTimers>>

\* perSkill (useMemo over the skills and the Answer Map of this render)
perSkill == computeMastery(SKILLS, answers)

\* the record submitDiagnostic renders once both of its guards pass
submittedRecord(newPlan) ==
  [Mem EXCEPT !.plan = newPlan, !.dayIndex = 0,
              !.dayProgress = <<>>, !.revealed = <<>>]

submitDiagnosticUnguarded ==
  UserCommit(submittedRecord(pickPlan(perSkill, PlanDays)), TRUE)

submitDiagnosticKeepsReveals ==
  LET newPlan == pickPlan(perSkill, PlanDays) IN
  IF firstUnanswered(answers) >= 0
  THEN Refuse(Alert("incomplete", firstUnanswered(answers) + 1),
              firstUnanswered(answers))
  ELSE UserCommit([submittedRecord(newPlan) EXCEPT !.revealed = revealed], TRUE)

\* qs.findIndex((q) => ans[q.id] === undefined), counted from 0
findUnanswered(qs, ans) ==
  IF \E i \in 1..Len(qs) : qs[i].id \notin DOMAIN ans
  THEN (CHOOSE i \in 1..Len(qs) :
          /\ qs[i].id \notin DOMAIN ans
          /\ \A j \in 1..(i - 1) : qs[j].id \in DOMAIN ans) - 1
  ELSE -1

\* submitDiagnostic in a build whose skills.js exports the topic list skills
submitDiagnosticOver(skills) ==
  LET qs == Flatten([i \in 1..Len(skills) |-> skills[i].diagnostic])
      unanswered == findUnanswered(qs, answers)
      newPlan == pickPlan(computeMastery(skills, answers), PlanDays)
  IN IF unanswered >= 0
     THEN Refuse(Alert("incomplete", unanswered + 1), unanswered)
     ELSE IF Len(newPlan) = 0
     THEN Refuse(Alert("no-topics", 0), diagIndex)
     ELSE UserCommit(submittedRecord(newPlan), TRUE)

submitDiagnostic == submitDiagnosticOver(SKILLS)

\* startDiagnostic({reset: true}) and restartDiagnosticFlow: plan, progress,
\* reveals and answers are emptied, the day-snap ref and the cursor are reset
restartedRecord ==
  [Mem EXCEPT !.plan = <<>>, !.dayIndex = 0, !.dayProgress = <<>>,
              !.revealed = <<>>, !.answers = <<>>]

Restarted ==
  /\ Later
  /\ Commit(restartedRecord, TRUE, skipNextPersistRef, FALSE)
  /\ Mark("restart")
  /\ diagIndex' = 0 /\ alerted' = NoAlert
  /\ UNCHANGED <<storageWritable, storage, storageEvents, storageFails, content, calc, tabs,
                 advanceTimers>>

\* startDiagnostic: with reset, a restart; without, resume at the first
\* unanswered question
startDiagnostic(reset) ==
  IF reset
  THEN Restarted
  ELSE /\ ShowQuestion(NoAlert, Max(0, firstUnanswered(answers)))
       /\ UNCHANGED advanceTimers

\* the "continue" button (shown with answers and no plan) and the "start" /
\* "start over" / "reset diagnostic" buttons
StartDiagnostic ==
  \E reset \in BOOLEAN :
    /\ ~reset => (Len(plan) = 0 /\ answers # <<>>)
    /\ startDiagnostic(reset)

\* restartDiagnosticFlow, the confirmation given or declined
restartDiagnosticFlow(ok) ==
  IF ok THEN Restarted ELSE Refuse(NoAlert, diagIndex)

\* the "redo the diagnostic" button of the result view
RestartDiagnosticFlow ==
  \E ok \in BOOLEAN : Len(plan) > 0 /\ restartDiagnosticFlow(ok)

\* variant of regeneratePlan with a plausible slip: the progress of the old
\* plan is kept
regeneratePlanKeepsProgress(ok) ==
  IF Len(plan) = 0 \/ ~ok
  THEN Refuse(NoAlert, diagIndex)
  ELSE UserCommit([Mem EXCEPT !.plan = pickPlan(perSkill, PlanDays), !.dayIndex = 0], TRUE)

\* regeneratePlan: returns when there is no plan or the confirmation is
\* declined; else a new plan from the mastery of this render
regeneratePlan(ok) ==
  IF Len(plan) = 0 \/ ~ok
  THEN Refuse(NoAlert, diagIndex)
  ELSE UserCommit(submittedRecord(pickPlan(perSkill, PlanDays)), TRUE)

\* the "regenerate plan" button; the confirmation is asked only with a plan
RegeneratePlan ==
  \E ok \in (IF Len(plan) > 0 THEN BOOLEAN ELSE {TRUE}) : regeneratePlan(ok)

\* the 120 ms timer of chooseDiagnosticAnswer fires: the callback advances the
\* cursor, or calls the submitDiagnostic it closed over, whose Answer Map and
\* perSkill are those of the render the click happened in
AutoAdvanceFires ==
  /\ advanceTimers # <<>>
  /\ LET tm == Head(advanceTimers)
         unanswered == findUnanswered(allQuestions, tm.answers)
         newPlan == pickPlan(computeMastery(SKILLS, tm.answers), PlanDays)
     IN IF ~tm.isLast
        THEN ShowQuestion(NoAlert, Min(Len(allQuestions) - 1, diagIndex + 1))
        ELSE IF unanswered >= 0
        THEN ShowQuestion(Alert("incomplete", unanswered + 1), unanswered)
        ELSE IF Len(newPlan) = 0
        THEN ShowQuestion(Alert("no-topics", 0), diagIndex)
        ELSE /\ Commit(submittedRecord(newPlan), TRUE, skipNextPersistRef,
                       didAutoJumpToNextIncompleteRef)
             /\ Mark("timer")
             /\ diagIndex' = diagIndex /\ alerted' = NoAlert
             /\ UNCHANGED <<storageWritable, envVars, content, calc, tabs>>
  /\ advanceTimers' = Tail(advanceTimers)

\* "previous question" button (or the left arrow key)
DiagPrev ==
  /\ diagIndex > 0
  /\ ShowQuestion(NoAlert, Max(0, diagIndex - 1))
  /\ UNCHANGED advanceTimers

\* "next question" button (or the right arrow key): needs an answer to the
\* question shown
DiagNext ==
  /\ diagIndex < Len(allQuestions) - 1
  /\ currentQ.id \in DOMAIN answers
  /\ ShowQuestion(NoAlert, Min(Len(allQuestions) - 1, diagIndex + 1))
  /\ UNCHANGED advanceTimers

\* "jump to the first unanswered question" button (or the key J)
DiagJumpUnanswered ==
  /\ firstUnanswered(answers) >= 0
  /\ firstUnanswered(answers) # diagIndex
  /\ ShowQuestion(NoAlert, firstUnanswered(answers))
  /\ UNCHANGED advanceTimers

\* the one-click "complete today" button of the task view
CompleteToday ==
  LET todayDone == DayDone(dayProgress, dayIndex) IN
  /\ Len(plan) > 0
  /\ UserCommit([Mem EXCEPT !.dayProgress =
                   (dayIndex :> [conceptDone |-> ~todayDone,
                                 practiceDone |-> ~todayDone]) @@ dayProgress],
                TRUE)

\* the "next day" button (disabled on the last day)
NextDay ==
  /\ dayIndex < Len(plan) - 1
  /\ UserCommit([Mem EXCEPT !.dayIndex = dayIndex + 1], TRUE)

currentSkillId == IF dayIndex + 1 \in DOMAIN plan THEN plan[dayIndex + 1] ELSE ""

IsRevealed(rev, qid) == qid \in DOMAIN rev /\ rev[qid]

\* the show / hide answer button of one practice question of today's skill
ToggleRevealed ==
  \E qid \in Range(getPracticeQuestionsForSkill(currentSkillId)) :
    UserCommit([Mem EXCEPT !.revealed = (qid :> ~IsRevealed(revealed, qid)) @@ revealed],
               TRUE)

\* practiceQs of today's skill (a shuffle changes the order only)
practiceQs == getPracticeQuestionsForSkill(currentSkillId)

\* practiceQs.every((q) => Boolean(revealed?.[q.id]))
allPracticeRevealed == \A q \in Range(practiceQs) : IsRevealed(revealed, q)

\* { ...(p?.[dayIndex] || {}), [f]: value }
WithStep(dp, d, f, value) ==
  (d :> ((f :> value) @@ (IF d \in DOMAIN dp THEN dp[d] ELSE <<>>))) @@ dp

togglePracticeDoneUngated ==
  LET cur == dayIndex \in DOMAIN dayProgress
             /\ BooleanOf(dayProgress[dayIndex], "practiceDone")
  IN UserCommit([Mem EXCEPT !.dayProgress =
                    WithStep(dayProgress, dayIndex, "practiceDone", ~cur)], TRUE)

\* the toggle button of the practice step of the task view
togglePracticeDone ==
  LET cur == dayIndex \in DOMAIN dayProgress
             /\ BooleanOf(dayProgress[dayIndex], "practiceDone")
  IN IF cur
     THEN UserCommit([Mem EXCEPT !.dayProgress =
                        WithStep(dayProgress, dayIndex, "practiceDone", FALSE)], TRUE)
     ELSE IF ~allPracticeRevealed
     THEN Refuse(Alert("unmet", 0), diagIndex)
     ELSE UserCommit([Mem EXCEPT !.dayProgress =
                        WithStep(dayProgress, dayIndex, "practiceDone", TRUE)], TRUE)

TogglePracticeDone ==
  /\ Len(plan) > 0
  /\ togglePracticeDone

\* the "practice complete" button: disabled while an answer is hidden or the
\* step is already done
PracticeComplete ==
  /\ Len(plan) > 0
  /\ allPracticeRevealed
  /\ ~(dayIndex \in DOMAIN dayProgress
        /\ BooleanOf(dayProgress[dayIndex], "practiceDone"))
  /\ UserCommit([Mem EXCEPT !.dayProgress =
                    WithStep(dayProgress, dayIndex, "practiceDone", TRUE)], TRUE)

\* exportProgress: the payload that is shared, copied or downloaded
\* (savedAt: savedAt || undefined)
exportText ==
  JObject(IF savedAt = NoTime THEN {"savedAt"} ELSE {}, CurrentVersion,
          [Mem EXCEPT !.lastExportedAt = now])

\* variant with a plausible slip: the export also stamps savedAt
MarkExportedStampsSavedAt ==
  /\ lastExportedAt # now
  /\ Later
  /\ Commit([Mem EXCEPT !.lastExportedAt = now, !.savedAt = now], TRUE,
            skipNextPersistRef, didAutoJumpToNextIncompleteRef)
  /\ lastOp' = "user"
  /\ prevOp' = lastOp
  /\ lastImport' = <<>>
  /\ clipboard' = << exportText >>
  /\ undisturbed' = TRUE
  /\ Quiet
  /\ UNCHANGED <<storageWritable, storage, storageEvents, storageFails>>

\* exportProgress: the text is handed out and markExported runs
MarkExported ==
  /\ lastExportedAt # now
  /\ Later
  /\ Commit([Mem EXCEPT !.lastExportedAt = now], TRUE, skipNextPersistRef,
            didAutoJumpToNextIncompleteRef)
  /\ lastOp' = "user"
  /\ prevOp' = lastOp
  /\ lastImport' = <<>>
  /\ clipboard' = << exportText >>
  /\ undisturbed' = TRUE
  /\ Quiet
  /\ UNCHANGED <<storageWritable, storage, storageEvents, storageFails>>

\* ------------------------------------------------------------------------
\* Reset all progress
\* ------------------------------------------------------------------------
resetProgressKeepsFlags(ok) ==
  /\ Later
  /\ alerted' = NoAlert
  /\ UNCHANGED <<content, calc, tabs, advanceTimers>>
  /\ IF ~ok
     THEN UNCHANGED <<recVars, storageWritable, refVars, storage, storageEvents,
                      storageFails, histVars, diagIndex>>
     ELSE /\ storage' = storageRemove(storage, storageFails)
          /\ storageWritable' = ~storageFails
          /\ Commit([DefaultRecord EXCEPT !.autoNext = autoNext,
                                          !.lastExportedAt = lastExportedAt],
                    TRUE, TRUE, FALSE)
          /\ diagIndex' = 0
          /\ Mark("reset")
          /\ UNCHANGED <<storageEvents, storageFails>>

resetProgress(ok) ==
  /\ Later
  /\ alerted' = NoAlert
  /\ UNCHANGED <<content, calc, tabs, advanceTimers>>
  /\ IF ~ok
     THEN UNCHANGED <<recVars, storageWritable, refVars, storage, storageEvents,
                      storageFails, histVars, diagIndex>>
     ELSE /\ storage' = storageRemove(storage, storageFails)
          /\ storageWritable' = ~storageFails
          /\ Commit(DefaultRecord, TRUE, TRUE, FALSE)
          /\ diagIndex' = 0
          /\ Mark("reset")
          /\ UNCHANGED <<storageEvents, storageFails>>

ResetProgress == \E ok \in BOOLEAN : resetProgress(ok)

\* ------------------------------------------------------------------------
\* Cross-Context Reconciler: storage events
\* ------------------------------------------------------------------------

\* Math.max(0, Math.min(planLength - 1, dayIndex))
ClampDay(planLen, d) == Max(0, Min(planLen - 1, d))

\* onStorage: is the signal acted on (a deletion, or a value that parses to an object)
onStorageAccepts(e) == e.tag = "absent" \/ IsObjectLike(e)

\* Variant of onStorageRecord with a plausible slip: a deletion in another
\* tab does not clear the local answers
onStorageRecordKeepsAnswers(e) ==
  IF e.tag = "absent" THEN [DefaultRecord EXCEPT !.answers = answers]
  ELSE LET r == InitialRecord(e)
       IN [r EXCEPT !.dayIndex = ClampDay(Len(r.plan), r.dayIndex)]

\* onStorage: the record rendered for an accepted signal
onStorageRecord(e) ==
  IF e.tag = "absent" THEN DefaultRecord
  ELSE LET r == InitialRecord(e)
       IN [r EXCEPT !.dayIndex = ClampDay(Len(r.plan), r.dayIndex)]

\* the browser delivers the oldest queued storage event for STORAGE_KEY
OnStorage ==
  /\ storageEvents # <<>>
  /\ storageEvents' = Tail(storageEvents)
  /\ LET e == Head(storageEvents) IN
       IF onStorageAccepts(e)
       THEN /\ Commit(onStorageRecord(e), TRUE, TRUE, didAutoJumpToNextIncompleteRef)
            /\ storageWritable' = TRUE
            /\ diagIndex' = IF e.tag = "absent" THEN 0 ELSE diagIndex
            /\ Mark(IF e.tag = "absent" THEN "cleared" ELSE "adopt")
       ELSE /\ undisturbed' = FALSE
            /\ UNCHANGED <<recVars, storageWritable, refVars, lastOp, prevOp,
                           superseded, lastImport, clipboard, diagIndex>>
  /\ alerted' = NoAlert
  /\ UNCHANGED <<storage, storageFails, now, content, calc, tabs, advanceTimers>>

\* what another tab or context may leave under the key
AnswersOnlyRecord ==
  [DefaultRecord EXCEPT !.answers = ("mole_d1" :> 0), !.autoNext = FALSE,
                        !.savedAt = 2, !.lastExportedAt = 1]
FarDayRecord ==
  [DefaultRecord EXCEPT !.plan = PlanMoleFirst, !.dayIndex = 9, !.savedAt = 2]

ExternalValues ==
  { Absent, JValue("text"), JValue("num"), JValue("array"),
    JObject({"plan", "answers", "version"}, CurrentVersion, StoredPlanRecord),
    Stringify(StoredPlanRecord), Stringify(AnswersOnlyRecord),
    Stringify(FarDayRecord) }

\* another tab writes or removes the key; this tab is sent a storage event
ExternalWrite ==
  \E v \in ExternalValues :
    /\ Later
    /\ Len(storageEvents) < MaxEvents
    /\ v # storage
    /\ storage' = v
    /\ storageEvents' = Append(storageEvents, v)
    /\ Quiet
    /\ undisturbed' = FALSE
    /\ UNCHANGED <<recVars, storageWritable, refVars, storageFails, lastOp, prevOp,
                   superseded, lastImport, clipboard>>

\* ------------------------------------------------------------------------
\* Cross-Context Reconciler: import
\* ------------------------------------------------------------------------
\* A pasted text is a sequence of tokens: "F" a ``` fence, "w" prose, "5" a
\* number, "{" "}" "[" "]", and "m" the members of the payload object.
RECURSIVE IsJsonValue(_)
RECURSIVE IsJsonList(_)
IsJsonValue(t) ==
  \/ t = <<"5">>
  \/ t = <<"{", "}">>
  \/ t = <<"{", "m", "}">>
  \/ /\ Len(t) >= 2
     /\ t[1] = "["
     /\ t[Len(t)] = "]"
     /\ IsJsonList(SubSeq(t, 2, Len(t) - 1))
IsJsonList(t) ==
  \/ t = <<>>
  \/ \E k \in 1..Len(t) :
       IsJsonValue(SubSeq(t, 1, k)) /\ IsJsonList(SubSeq(t, k + 1, Len(t)))

EmptyObject == JObject(RecordFields \cup {"version"}, CurrentVersion, DefaultRecord)

\* safeParse(json, null) of the text t whose "m" stands for the object payload
safeParse(t, payload) ==
  IF ~IsJsonValue(t) THEN JValue("null")
  ELSE IF t[1] = "5" THEN JValue("num")
  ELSE IF t[1] = "[" THEN JValue("array")
  ELSE IF Len(t) = 2 THEN EmptyObject
  ELSE payload

\* the scan for the first balanced span gives up after this many characters
ScanCap == 2000000

TokenCount(t, from, to, tok) == Cardinality({i \in from..to : t[i] = tok})

\* index of the first occurrence of tok in t, 0 if none
IndexOf(t, tok) ==
  IF \E i \in 1..Len(t) : t[i] = tok
  THEN CHOOSE i \in 1..Len(t) : t[i] = tok /\ \A j \in 1..(i - 1) : t[j] # tok
  ELSE 0

\* the index where the depth counted from start returns to 0, 0 if the scan
\* ends first
BalancedEnd(t, start, open, close) ==
  LET closes(i) == TokenCount(t, start, i, open) = TokenCount(t, start, i, close)
      ends == {i \in start..Len(t) :
                 /\ closes(i)
                 /\ \A k \in start..(i - 1) : ~closes(k) /\ k - start <= ScanCap}
  IN IF ends = {} THEN 0 ELSE CHOOSE i \in ends : TRUE

\* one pass of the recovery loop: the first balanced open..close span, parsed
SpanParse(t, open, close, payload) ==
  LET start == IndexOf(t, open)
      end == IF start = 0 THEN 0 ELSE BalancedEnd(t, start, open, close)
  IN IF end = 0 THEN JValue("null")
     ELSE safeParse(SubSeq(t, start, end), payload)

\* the two replace() calls that strip a leading and a trailing fence
Unfence(t) ==
  LET a == IF t # <<>> /\ Head(t) = "F" THEN Tail(t) ELSE t
  IN IF a # <<>> /\ a[Len(a)] = "F" THEN SubSeq(a, 1, Len(a) - 1) ELSE a

safeParsePossiblyWrappedJson(t, payload) ==
  LET direct == safeParse(t, payload)
      unfenced == Unfence(t)
      unfencedDirect == safeParse(unfenced, payload)
      braces == SpanParse(unfenced, "{", "}", payload)
      brackets == SpanParse(unfenced, "[", "]", payload)
  IN IF t = <<>> THEN JValue("null")
     ELSE IF direct.tag # "null" THEN direct
     ELSE IF unfencedDirect.tag # "null" THEN unfencedDirect
     ELSE IF braces.tag # "null" THEN braces
     ELSE brackets

\* a plan entry that is not a string: the number 5
NumberEntry == "#5"

\* Variant of sanitizeImportedPlan with a plausible slip: an unknown entry is
\* replaced by the first topic instead of being dropped
sanitizeImportedPlanSubstitutes(xs) ==
  [i \in 1..Len(xs) |-> IF xs[i] \in skillIdSet THEN xs[i] ELSE SKILLS[1].id]

\* xs.filter((sid) => typeof sid === 'string' && skillIdSet.has(sid))
sanitizeImportedPlan(xs) ==
  SelectSeq(xs, LAMBDA sid : sid # NumberEntry /\ sid \in skillIdSet)

\* The value of an answer entry in a payload is a JSON value: an integer n
\* below JsonNull stands for the number n, the codes from JsonNull on for
\* null, the number 1.5, the string "1" and the string "x".
JsonNull == 100
JsonFraction == 101
JsonNumeral == 102
JsonWord == 103

\* Number.isFinite(Number(v)): Number('x') is NaN
IsFiniteNumber(v) == v # JsonWord

\* Math.trunc(Number(v)): Number(null) is 0, Number('1') is 1, trunc(1.5) is 1
TruncNumber(v) ==
  CASE v = JsonNull -> 0
    [] v = JsonFraction -> 1
    [] v = JsonNumeral -> 1
    [] OTHER -> v

sanitizeImportedAnswers(obj) ==
  LET keep == {qid \in DOMAIN obj :
                 /\ qid \in QuestionIds
                 /\ IsFiniteNumber(obj[qid])
                 /\ TruncNumber(obj[qid]) >= 0
                 /\ TruncNumber(obj[qid]) < ChoicesLen(qid)}
  IN [qid \in keep |-> TruncNumber(obj[qid])]

practiceIds ==
  UNION {Range(getPracticeQuestionsForSkill(sid)) : sid \in skillIdSet}

sanitizeImportedRevealed(obj) ==
  [qid \in DOMAIN obj \cap practiceIds |-> obj[qid]]

\* A day's entry in a payload is an object that may lack either sub-field, or
\* is not an object at all (null, a number, ...).
NotAnObject == [notObject |-> TRUE]
IsDayObject(v) == "notObject" \notin DOMAIN v

\* Variant of sanitizeImportedDayProgress with a plausible slip: the bound on
\* the day is off by one
sanitizeImportedDayProgressOffByOne(obj, planLen) ==
  [day \in {d \in DOMAIN obj : d >= 0 /\ d <= planLen /\ IsDayObject(obj[d])} |->
     [conceptDone |-> BooleanOf(obj[day], "conceptDone"),
      practiceDone |-> BooleanOf(obj[day], "practiceDone")]]

sanitizeImportedDayProgress(obj, planLen) ==
  [day \in {d \in DOMAIN obj : d >= 0 /\ d < planLen /\ IsDayObject(obj[d])} |->
     [conceptDone |-> BooleanOf(obj[day], "conceptDone"),
      practiceDone |-> BooleanOf(obj[day], "practiceDone")]]

\* applyImportedProgress: the value of each field of the payload, or what the
\* code reads for a field that is missing or of the wrong type
ImportField(parsed, f) ==
  IF FieldOk(parsed, f) THEN parsed.rec[f] ELSE DefaultRecord[f]

\* applyImportedProgress: the version the payload is taken to have
\* Number(parsed.version ?? 1).  The version field holds a JSON value coded as
\* an answer value is; JsonWord stands for NaN and JsonFraction for 1.5 here.
importedVersion(parsed) ==
  IF parsed.tag = "object" /\ "version" \notin parsed.bad
  THEN CASE parsed.version = JsonNull -> CurrentVersion
         [] parsed.version = JsonNumeral -> 1
         [] OTHER -> parsed.version
  ELSE CurrentVersion

\* Number.isFinite(importedVersion) && importedVersion !== 1
versionDiffers(parsed) ==
  IsFiniteNumber(importedVersion(parsed)) /\ importedVersion(parsed) # CurrentVersion

\* Variant of droppedCount with a plausible slip: dropped answers are not counted
droppedCountPlanOnly(parsed) ==
  LET rawPlan == ImportField(parsed, "plan")
  IN Max(0, Len(rawPlan) - Len(sanitizeImportedPlan(rawPlan)))

\* applyImportedProgress: the number of plan and answer entries sanitisation drops
droppedCount(parsed) ==
  LET rawPlan == ImportField(parsed, "plan")
      rawAnswers == ImportField(parsed, "answers")
  IN Max(0, Len(rawPlan) - Len(sanitizeImportedPlan(rawPlan)))
     + Max(0, Cardinality(DOMAIN rawAnswers)
              - Cardinality(DOMAIN sanitizeImportedAnswers(rawAnswers)))

\* Variant of sanitizedRecord with a plausible slip: the backup time of a
\* payload of another version is not taken over
sanitizedRecordByVersion(parsed, t) ==
  LET nextPlan == sanitizeImportedPlan(ImportField(parsed, "plan"))
      importedSavedAt == ImportField(parsed, "savedAt")
  IN [plan |-> nextPlan,
      dayIndex |-> ClampDay(Len(nextPlan), ImportField(parsed, "dayIndex")),
      answers |-> sanitizeImportedAnswers(ImportField(parsed, "answers")),
      dayProgress |-> sanitizeImportedDayProgress(
                        ImportField(parsed, "dayProgress"), Len(nextPlan)),
      revealed |-> sanitizeImportedRevealed(ImportField(parsed, "revealed")),
      autoNext |-> ImportField(parsed, "autoNext"),
      shufflePractice |-> ImportField(parsed, "shufflePractice"),
      savedAt |-> IF importedSavedAt # NoTime THEN importedSavedAt ELSE t,
      lastExportedAt |-> IF versionDiffers(parsed) THEN NoTime
                         ELSE ImportField(parsed, "lastExportedAt")]

\* applyImportedProgress: the record that is committed, stamped at time t
sanitizedRecord(parsed, t) ==
  LET nextPlan == sanitizeImportedPlan(ImportField(parsed, "plan"))
      importedSavedAt == ImportField(parsed, "savedAt")
  IN [plan |-> nextPlan,
      dayIndex |-> ClampDay(Len(nextPlan), ImportField(parsed, "dayIndex")),
      answers |-> sanitizeImportedAnswers(ImportField(parsed, "answers")),
      dayProgress |-> sanitizeImportedDayProgress(
                        ImportField(parsed, "dayProgress"), Len(nextPlan)),
      revealed |-> sanitizeImportedRevealed(ImportField(parsed, "revealed")),
      autoNext |-> ImportField(parsed, "autoNext"),
      shufflePractice |-> ImportField(parsed, "shufflePractice"),
      savedAt |-> IF importedSavedAt # NoTime THEN importedSavedAt ELSE t,
      lastExportedAt |-> ImportField(parsed, "lastExportedAt")]

\* applyImportedProgress returns true: the payload is an object and every
\* confirmation it asks for is given
importCommits(parsed, okVersion, okDropped) ==
  /\ IsObjectLike(parsed)
  /\ (versionDiffers(parsed) => okVersion)
  /\ (droppedCount(parsed) > 0 => okDropped)

\* payloads a user may paste
ExportPayload == JObject({}, CurrentVersion, [StoredPlanRecord EXCEPT !.lastExportedAt = 1])
NewerPayload == JObject({"plan", "dayProgress"}, 2, AnswersOnlyRecord)
StalePayload ==
  JObject({"version", "savedAt", "lastExportedAt"}, CurrentVersion,
          [DefaultRecord EXCEPT !.plan = <<"mole", "gas-laws">>,
                                !.dayIndex = 5,
                                !.answers = ("mole_d1" :> 0) @@ ("gas_d1" :> 1),
                                !.dayProgress = (1 :> DoneDay) @@ (4 :> DoneDay)])

\* the same fields as a bare persisted record: no version, no export metadata
BarePayload == JObject({"plan", "dayProgress", "version"}, CurrentVersion, AnswersOnlyRecord)
\* a version field that is not a number: the string "x"
WordVersionPayload == JObject({"plan", "dayProgress"}, JsonWord, AnswersOnlyRecord)
\* a plan with a number, an unknown topic and a repeated topic; answers out
\* of the range of choices; day entries that lack a sub-field, are not
\* objects, or lie outside the plan
MixedPlanPayload ==
  JObject({"savedAt", "lastExportedAt"}, CurrentVersion,
          [DefaultRecord EXCEPT
             !.plan = <<"molar-mass", NumberEntry, "gas-laws", "mole", "molar-mass">>,
             !.dayIndex = 1,
             !.answers = ("mole_d1" :> 2) @@ ("mm_d1" :> -1),
             !.dayProgress = (-1 :> DoneDay) @@ (0 :> [conceptDone |-> TRUE])
                             @@ (1 :> NotAnObject) @@ (2 :> DoneDay)
                             @@ (3 :> DoneDay)])
\* answers that are not JSON integers
NullAnswerPayload ==
  JObject({"plan", "dayProgress", "savedAt", "lastExportedAt"}, CurrentVersion,
          [DefaultRecord EXCEPT
             !.answers = ("mole_d1" :> JsonNull) @@ ("mm_d1" :> JsonWord)])
CoercedAnswersPayload ==
  JObject({"plan", "dayProgress", "savedAt", "lastExportedAt"}, CurrentVersion,
          [DefaultRecord EXCEPT
             !.answers = ("mole_d1" :> JsonFraction) @@ ("mm_d1" :> JsonNumeral)])

ImportTexts ==
  { [text |-> <<"{", "m", "}">>, payload |-> ExportPayload],
    [text |-> <<"{", "m", "}">>, payload |-> MixedPlanPayload],
    [text |-> <<"{", "m", "}">>, payload |-> WordVersionPayload],
    [text |-> <<"{", "m", "}">>, payload |-> BarePayload],
    [text |-> <<"{", "m", "}">>, payload |-> NullAnswerPayload],
    [text |-> <<"{", "m", "}">>, payload |-> CoercedAnswersPayload],
    [text |-> <<"{", "m", "}">>, payload |-> NewerPayload],
    [text |-> <<"{", "m", "}">>, payload |-> StalePayload],
    [text |-> <<"F", "{", "m", "}", "F">>, payload |-> NewerPayload],
    [text |-> <<"w", "[", "{", "m", "}", "]", "w">>, payload |-> NewerPayload],
    [text |-> <<"w", "{", "m">>, payload |-> ExportPayload],
    [text |-> <<"{", "w", "}">>, payload |-> ExportPayload],
    [text |-> <<"w">>, payload |-> ExportPayload],
    [text |-> <<"5">>, payload |-> ExportPayload],
    [text |-> <<"[", "5", "]">>, payload |-> ExportPayload],
    [text |-> <<"{", "}">>, payload |-> ExportPayload] }

\* what each text parses to (evaluated once)
ParsedImport == [x \in ImportTexts |-> safeParsePossiblyWrappedJson(x.text, x.payload)]

\* the texts a user may paste now: the prepared ones and the latest export
Pasteable ==
  ImportTexts \cup {[text |-> <<"{", "m", "}">>, payload |-> clipboard[i]] :
                      i \in DOMAIN clipboard}

Parsed(x) ==
  IF x \in ImportTexts THEN ParsedImport[x]
  ELSE safeParsePossiblyWrappedJson(x.text, x.payload)

\* importProgressViaPrompt and its clipboard, file and drop variants, for the
\* pasted text x and the user's answers to the confirmations
importProgress(x, okOverwrite, okVersion, okDropped) ==
  LET parsed == Parsed(x)
      rec == sanitizedRecord(parsed, now)
  IN /\ Later
     /\ diagIndex' = diagIndex
     /\ UNCHANGED <<content, calc, tabs, advanceTimers>>
     /\ alerted' = IF parsed.tag # "null" /\ okOverwrite /\ ~IsObjectLike(parsed)
                   THEN Alert("not-object", 0) ELSE NoAlert
     /\ IF parsed.tag # "null" /\ okOverwrite
           /\ importCommits(parsed, okVersion, okDropped)
        THEN /\ Commit(rec, TRUE, TRUE, didAutoJumpToNextIncompleteRef)
             /\ storage' = storageSet(storage, Stringify(rec), storageFails)
             /\ storageWritable' = ~storageFails
             /\ lastOp' = "import"
             /\ prevOp' = lastOp
             /\ lastImport' = <<x>>
             /\ clipboard' = clipboard
             /\ undisturbed' = FALSE
             /\ UNCHANGED <<storageEvents, storageFails>>
        ELSE UNCHANGED <<recVars, storageWritable, refVars, storage,
                         storageEvents, storageFails, histVars>>

\* the confirmations the import of x asks for, given the earlier answers
AsksVersion(x, okOverwrite) ==
  /\ Parsed(x).tag # "null"
  /\ okOverwrite
  /\ IsObjectLike(Parsed(x))
  /\ versionDiffers(Parsed(x))
AsksDropped(x, okOverwrite, okVersion) ==
  /\ Parsed(x).tag # "null"
  /\ okOverwrite
  /\ IsObjectLike(Parsed(x))
  /\ (versionDiffers(Parsed(x)) => okVersion)
  /\ droppedCount(Parsed(x)) > 0

\* a confirmation that is not asked has no answer to vary
ImportProgress ==
  \E x \in Pasteable : \E okOverwrite, okVersion, okDropped \in BOOLEAN :
    /\ (Parsed(x).tag = "null" => okOverwrite)
    /\ (~AsksVersion(x, okOverwrite) => okVersion)
    /\ (~AsksDropped(x, okOverwrite, okVersion) => okDropped)
    /\ importProgress(x, okOverwrite, okVersion, okDropped)

Next ==
  \/ ChooseDiagnosticAnswer
  \/ ClearDiagnosticAnswer
  \/ ToggleAutoNext
  \/ RegeneratePlan
  \/ StartDiagnostic
  \/ RestartDiagnosticFlow
  \/ AutoAdvanceFires
  \/ DiagPrev
  \/ DiagNext
  \/ DiagJumpUnanswered
  \/ submitDiagnostic
  \/ CompleteToday
  \/ NextDay
  \/ ToggleRevealed
  \/ TogglePracticeDone
  \/ PracticeComplete
  \/ MarkExported
  \/ ResetProgress
  \/ ImportProgress
  \/ OnStorage
  \/ ExternalWrite
  \/ PersistTimerFires
  \/ ForcedFlush

Spec == Init /\ [][Next]_vars

\* ------------------------------------------------------------------------
\* Submit diagnostic over other topic lists
\* ------------------------------------------------------------------------
\* a topic that has no diagnostic and no practice questions
NoDiagnosticTopic == [id |-> "lab-safety", diagnostic |-> <<>>, practice |-> <<>>]

\* what skills.js may export: nothing, only a topic without diagnostic
\* questions, such a topic next to one with a question, the shipped list
TopicLists ==
  { <<>>, << NoDiagnosticTopic >>, << NoDiagnosticTopic, SKILLS[1] >>, SKILLS }

\* the Answer Maps over the shipped questions
AnswerMaps ==
  UNION {[qs -> 0..1] : qs \in SUBSET QuestionIds}

\* the component has mounted over a stored record with any Answer Map, with
\* or without a plan, in a build that ships any of the topic lists
InitPlan ==
  \E c \in TopicLists, a \in AnswerMaps, r \in {DefaultRecord, StoredPlanRecord} :
    /\ content = c
    /\ calc = NoCalc
    /\ tabs = NoTabs
    /\ Mounted(Stringify([r EXCEPT !.answers = a, !.savedAt = 1]), FALSE)

SubmitOverContent == submitDiagnosticOver(content)

NextPlan ==
  \/ SubmitOverContent
  \/ ChooseDiagnosticAnswer
  \/ ClearDiagnosticAnswer

SpecPlan == InitPlan /\ [][NextPlan]_vars

\* ------------------------------------------------------------------------
\* Mastery Calculator and Plan Generator applied on their own
\* ------------------------------------------------------------------------
\* a topic with three diagnostic questions
ThreeQuestionTopic ==
  [id |-> "stoich",
   diagnostic |-> << [id |-> "st_d1", answer |-> 0, choicesLen |-> 2],
                     [id |-> "st_d2", answer |-> 1, choicesLen |-> 2],
                     [id |-> "st_d3", answer |-> 0, choicesLen |-> 2] >>,
   practice |-> <<>>]

CalcTopicLists ==
  { <<>>, << NoDiagnosticTopic >>, SKILLS, << SKILLS[2], SKILLS[1] >>,
    << ThreeQuestionTopic, SKILLS[1] >>,
    << NoDiagnosticTopic, ThreeQuestionTopic, SKILLS[1] >>,
    << SKILLS[1], NoDiagnosticTopic, SKILLS[2] >> }

CalcQuestionIds == QuestionIds \cup {"st_d1", "st_d2", "st_d3"}

CalcAnswerMaps ==
  UNION {[qs -> 0..1] : qs \in SUBSET CalcQuestionIds}

\* the component has mounted over a stored record with any Answer Map in a
\* build that ships any of the topic lists
InitCalc ==
  \E c \in CalcTopicLists, a \in CalcAnswerMaps :
    /\ content = c
    /\ calc = NoCalc
    /\ tabs = NoTabs
    /\ Mounted(Stringify([DefaultRecord EXCEPT !.answers = a, !.savedAt = 1]), FALSE)

\* computeMastery(skills, answers)
ApplyComputeMastery ==
  /\ calc' = [perSkill |-> computeMastery(content, answers), days |-> 0,
              plan |-> <<>>]
  /\ UNCHANGED <<recVars, storageWritable, refVars, envVars, histVars, uiVars,
                 content, advanceTimers, tabs>>

\* pickPlan(perSkill, days)
ApplyPickPlan ==
  \E days \in 1..PlanDays :
    /\ calc.days >= 0
    /\ calc' = [calc EXCEPT !.days = days, !.plan = pickPlan(calc.perSkill, days)]
    /\ UNCHANGED <<recVars, storageWritable, refVars, envVars, histVars, uiVars,
                   content, advanceTimers, tabs>>

NextCalc ==
  \/ ApplyComputeMastery
  \/ ApplyPickPlan

SpecCalc == InitCalc /\ [][NextCalc]_vars

\* ------------------------------------------------------------------------
\* Day navigation over any stored day
\* ------------------------------------------------------------------------
\* the "previous day" button (disabled on day 1)
PrevDay ==
  /\ dayIndex # 0
  /\ UserCommit([Mem EXCEPT !.dayIndex = Max(0, dayIndex - 1)], TRUE)

\* a day of the plan list is clicked
JumpToDay ==
  \E idx \in 0..(Len(plan) - 1) :
    UserCommit([Mem EXCEPT !.dayIndex = idx], idx # dayIndex)

\* the component has mounted over a stored record whose dayIndex is any
\* number, or over one of the other stored values
InitDays ==
  /\ content = SKILLS
  /\ calc = NoCalc
  /\ tabs = NoTabs
  /\ \E v \in InitialStored \cup {Stringify(FarDayRecord)} : Mounted(v, FALSE)

NextDays ==
  \/ Next
  \/ PrevDay
  \/ JumpToDay

SpecDays == InitDays /\ [][NextDays]_vars

\* a timer that was set and not cleared runs its callback
SpecLive == Spec /\ WF_vars(PersistTimerFires)

\* ------------------------------------------------------------------------
\* Two tabs of one browser sharing localStorage
\* ------------------------------------------------------------------------
TabIds == 1..2
OtherTab(i) == 3 - i

\* the component state of one tab after a commit, and the storage events the
\* browser has queued for it
TabState(r, inbox) ==
  [rec |-> r.rec, skip |-> r.skip, didJump |-> r.didJump,
   payload |-> r.payload, timer |-> r.timer, inbox |-> inbox]

\* tab i rendered the record m
TabRendered(i, m, skip) ==
  LET t == tabs[i]
  IN TabState(AfterRender(m, TRUE, skip, t.didJump, t.payload, t.timer, now),
              t.inbox)

\* both tabs have mounted over the stored value
InitTabs ==
  \E v \in InitialStored :
    /\ content = SKILLS
    /\ calc = NoCalc
    /\ Mounted(v, FALSE)
    /\ tabs = [i \in TabIds |->
                 TabState(AfterRender(InitialRecord(loadPersistedState(v)), TRUE,
                                      FALSE, FALSE, <<>>, FALSE, 1), <<>>)]

\* the state of the tab that SpecTabs does not follow on its own
TabsFrame ==
  UNCHANGED <<recVars, storageWritable, refVars, storageEvents, storageFails,
              histVars, uiVars, content, calc, advanceTimers>>

\* a click handler of tab i that rendered the record m
TabUserCommit(i, m) ==
  /\ Later
  /\ tabs' = [tabs EXCEPT ![i] = TabRendered(i, m, tabs[i].skip)]
  /\ UNCHANGED storage
  /\ TabsFrame

\* the auto-advance checkbox in tab i
TabToggleAutoNext(i) ==
  TabUserCommit(i, [tabs[i].rec EXCEPT !.autoNext = ~tabs[i].rec.autoNext])

\* the "complete today" button in tab i
TabCompleteToday(i) ==
  LET m == tabs[i].rec
      todayDone == DayDone(m.dayProgress, m.dayIndex)
  IN /\ Len(m.plan) > 0
     /\ TabUserCommit(i, [m EXCEPT !.dayProgress =
                            (m.dayIndex :> [conceptDone |-> ~todayDone,
                                            practiceDone |-> ~todayDone])
                            @@ m.dayProgress])

\* persistNow in tab i; setItem with a value other than the stored one sends
\* a storage event to the other tab
TabPersistNow(i, timerAfter) ==
  LET t == tabs[i]
      j == OtherTab(i)
  IN IF t.payload = <<>>
     THEN /\ storage' = storage
          /\ tabs' = [tabs EXCEPT ![i].timer = timerAfter]
     ELSE LET v == Stringify(t.payload[1]) IN
          /\ v # storage => Len(tabs[j].inbox) < MaxEvents
          /\ storage' = v
          /\ tabs' = [tabs EXCEPT ![i].timer = timerAfter,
                                  ![i].rec.savedAt = t.payload[1].savedAt,
                                  ![j].inbox = IF v # storage THEN Append(@, v) ELSE @]

\* the 250 ms timer of the persist effect fires in tab i
TabTimerFires(i) ==
  /\ tabs[i].timer
  /\ TabPersistNow(i, FALSE)
  /\ UNCHANGED now
  /\ TabsFrame

\* tab i is hidden (onVisibilityChange / onPageHide): the user turned to the
\* other tab
TabForcedFlush(i) ==
  /\ tabs[i].payload # <<>>
  /\ TabPersistNow(i, tabs[i].timer)
  /\ UNCHANGED now
  /\ TabsFrame

\* onStorage in tab i: the browser delivers the oldest queued event
TabOnStorage(i) ==
  LET t == tabs[i] IN
  /\ t.inbox # <<>>
  /\ LET e == Head(t.inbox) IN
       tabs' = [tabs EXCEPT ![i] =
                  IF onStorageAccepts(e)
                  THEN TabState(AfterRender(onStorageRecord(e), TRUE, TRUE, t.didJump,
                                            t.payload, t.timer, now),
                                Tail(t.inbox))
                  ELSE [t EXCEPT !.inbox = Tail(t.inbox)]]
  /\ UNCHANGED <<storage, now>>
  /\ TabsFrame

ToggleAutoNextInATab == \E i \in TabIds : TabToggleAutoNext(i)
CompleteTodayInATab == \E i \in TabIds : TabCompleteToday(i)
TimerFiresInATab == \E i \in TabIds : TabTimerFires(i)
ForcedFlushInATab == \E i \in TabIds : TabForcedFlush(i)
OnStorageInATab == \E i \in TabIds : TabOnStorage(i)

NextTabs ==
  \/ ToggleAutoNextInATab
  \/ CompleteTodayInATab
  \/ TimerFiresInATab
  \/ ForcedFlushInATab
  \/ OnStorageInATab

\* every pending timer fires and every queued storage event is delivered
TabsFairness ==
  \A i \in TabIds : WF_vars(TabTimerFires(i)) /\ WF_vars(TabOnStorage(i))

SpecTabs == InitTabs /\ [][NextTabs]_vars /\ TabsFairness

\* ------------------------------------------------------------------------
\* Properties
\* ------------------------------------------------------------------------
\* operations that set skipNextPersistRef
SkipOps == {"reset", "import", "adopt", "cleared"}

\* a stored or broadcast value that is a record with every field well typed
StructurallyValid(v) == v.tag = "object" /\ v.bad \cap RecordFields = {}

\* a parsed import that is an object carrying at least one record field
Validatable(v) == v.tag = "object" /\ v.bad \cap RecordFields # RecordFields

\* C1: a confirmed reset cancels the debounced flush that an earlier mutation
\* left pending: after the reset no flush timer is pending until the next
\* mutation, so the pre-reset record is never written by it, and the key has
\* been removed (when the store accepts the removal).  Until the next
\* operation on the record the stored value changes only by a forced flush,
\* by an import or another reset, or by another tab.
C1_ResetCancelsPendingFlush ==
  /\ [](lastOp = "reset" => ~persistTimer)
  /\ [][(persistTimer /\ resetProgress(TRUE))
          => (~persistTimer' /\ (~storageFails => storage' = Absent))]_vars
  /\ [][(lastOp = "reset" /\ storage' # storage)
          => (ForcedFlush \/ ExternalWrite \/ ImportProgress \/ ResetProgress)]_vars

\* C1 witness: a reset was confirmed while the flush of a user mutation was
\* pending; the key is absent and the superseded payload differs from memory.
C1_Witness ==
  /\ lastOp = "reset"
  /\ prevOp = "user"
  /\ superseded
  /\ ~persistTimer
  /\ storage = Absent
  /\ lastPersistPayloadRef # <<>>
  /\ Persisted(lastPersistPayloadRef[1]) # Persisted(Mem)

\* C2 (as claimed): every forced flush (page hidden, page unloading) that the
\* store accepts leaves under the key the record held in memory at that
\* instant.
C2_ForcedFlushWritesMemory ==
  [][(ForcedFlush /\ ~storageFails)
       => (storage'.tag = "object" /\ Persisted(storage'.rec) = Persisted(Mem'))]_vars

\* C3 (as claimed): from the adoption of a storage signal until the next user
\* mutation, neither the debounce timer nor a forced flush changes the stored
\* value.
C3_AdoptionNeverWrites ==
  [][(lastOp \in {"adopt", "cleared"} /\ (PersistTimerFires \/ ForcedFlush))
       => storage' = storage]_vars

\* C4 (as claimed): a storage signal whose value is present but is not a
\* structurally valid record leaves the Progress Record and the store as they
\* were.
C4_InvalidSignalIgnored ==
  [][(/\ storageEvents # <<>>
      /\ Head(storageEvents).tag # "absent"
      /\ ~StructurallyValid(Head(storageEvents))
      /\ OnStorage)
       => UNCHANGED <<recVars, storage>>]_vars

C6_AdoptionWholesale ==
  [][(/\ storageEvents # <<>>
      /\ StructurallyValid(Head(storageEvents))
      /\ OnStorage)
       => Mem' = [Head(storageEvents).rec EXCEPT
                    !.dayIndex = ClampDay(Len(Head(storageEvents).rec.plan),
                                          Head(storageEvents).rec.dayIndex)]]_vars

\* C7: skipNextPersistRef is false whenever an event is about to be handled,
\* and the first user mutation after a reset, an import or an adoption
\* schedules a flush of the record it produced.
C7_SkipFlagConsumedOnce ==
  /\ [](~skipNextPersistRef)
  /\ [][(lastOp \in SkipOps /\ lastOp' = "user")
          => (/\ persistTimer'
              /\ lastPersistPayloadRef' # <<>>
              /\ Persisted(lastPersistPayloadRef'[1]) = Persisted(Mem'))]_vars

\* C7 witness: a user mutation that directly follows a reset, an import or an
\* adoption has scheduled a flush, and no earlier flush was pending.
C7_Witness ==
  /\ lastOp = "user"
  /\ prevOp \in SkipOps
  /\ ~superseded
  /\ persistTimer
  /\ ~skipNextPersistRef

\* C8: a pending debounced flush always carries the record now in memory, so
\* when the timer of a burst fires the one value it writes is the record after
\* the last mutation, and no timer is left pending.
C8_DebounceCoalesces ==
  /\ [](persistTimer
          => (/\ lastPersistPayloadRef # <<>>
              /\ Persisted(lastPersistPayloadRef[1]) = Persisted(Mem)))
  /\ [][(PersistTimerFires /\ ~storageFails)
          => (/\ ~persistTimer'
              /\ storage'.tag = "object"
              /\ Persisted(storage'.rec) = Persisted(Mem'))]_vars

\* C8 witness: the timer fired after a burst (the last mutation superseded a
\* pending flush) and the stored record is the one in memory.
C8_Witness ==
  /\ lastOp = "user"
  /\ prevOp = "user"
  /\ superseded
  /\ ~persistTimer
  /\ storage = Stringify(Mem)

\* C9 (as claimed): an import either changes no field and writes nothing, or
\* makes the Progress Record the sanitized record and writes that same record.
C9_ImportAllOrNothing ==
  [][\A x \in ImportTexts : \A o1, o2, o3 \in BOOLEAN :
       importProgress(x, o1, o2, o3)
         => \/ UNCHANGED <<recVars, storage>>
            \/ /\ Mem' = sanitizedRecord(Parsed(x), now)
               /\ (~storageFails => storage' = Stringify(Mem'))]_vars

\* C10 (as claimed): an import whose text is not recoverable JSON, or whose
\* parsed value is not a validatable record, changes neither the Progress
\* Record nor the stored value.
C10_UnusableImportFails ==
  [][\A x \in ImportTexts : \A o1, o2, o3 \in BOOLEAN :
       (importProgress(x, o1, o2, o3) /\ ~Validatable(Parsed(x)))
         => UNCHANGED <<recVars, storage>>]_vars

\* the k-th smallest element of a set of numbers
Nth(S, k) == CHOOSE i \in S : Cardinality({j \in S : j <= i}) = k

\* out is raw with exactly the entries outside keep removed
IsFiltered(raw, keep, out) ==
  LET idx == {i \in 1..Len(raw) : raw[i] \in keep}
  IN /\ Len(out) = Cardinality(idx)
     /\ \A k \in 1..Len(out) : out[k] = raw[Nth(idx, k)]

\* C11: after a committed import the Plan is the payload's plan (the empty
\* plan when the payload has none) with exactly the entries that are not
\* strings naming a known topic removed; order and repetitions of the rest
\* are kept and nothing stands in for a dropped entry.
C11_ImportedPlanFiltered ==
  lastImport # <<>>
    => IsFiltered(ImportField(Parsed(lastImport[1]), "plan"),
                  {SKILLS[i].id : i \in 1..Len(SKILLS)}, plan)

\* C11 witness: the plan with a number, an unknown topic and a repeated topic
\* was imported; the three known entries remain, in order.
C11_Witness ==
  /\ lastImport # <<>>
  /\ lastImport[1].payload = MixedPlanPayload
  /\ plan = <<"molar-mass", "mole", "molar-mass">>
  /\ dayIndex = 1

\* C12 (as claimed): after a committed import the Answer Map holds exactly
\* the payload entries whose id is a known diagnostic question and whose value
\* is an integer i with 0 <= i < the question's number of choices, each value
\* as the payload gave it.
C12_ImportedAnswersExact ==
  lastImport # <<>>
    => LET raw == ImportField(Parsed(lastImport[1]), "answers")
           keep == {qid \in DOMAIN raw \cap QuestionIds :
                      /\ raw[qid] < JsonNull
                      /\ raw[qid] >= 0
                      /\ raw[qid] < ChoicesLen(qid)}
       IN answers = [qid \in keep |-> raw[qid]]

C14_VersionMismatchNeedsConfirm ==
  [][lastOp' = "import"
       => \A x \in ImportTexts : \A o1, o3 \in BOOLEAN :
            (/\ Parsed(x).tag = "object"
             /\ "version" \notin Parsed(x).bad
             /\ Parsed(x).version # CurrentVersion
             /\ importProgress(x, o1, FALSE, o3))
              => UNCHANGED <<recVars, storage>>]_vars

\* C15: the count the import reports is the number of plan entries plus the
\* number of answer entries of the payload that are absent from the committed
\* record (2 for a payload with one unknown topic and one answer to an unknown
\* question), and when that count is not zero an import for which the
\* dropped-entries confirmation is not given changes nothing.
C15_DroppedEntriesCounted ==
  /\ [](droppedCount(StalePayload) = 2)
  /\ [](lastImport # <<>>
          => LET parsed == Parsed(lastImport[1])
                 rawPlan == ImportField(parsed, "plan")
                 rawAnswers == ImportField(parsed, "answers")
             IN droppedCount(parsed) =
                  Cardinality({i \in 1..Len(rawPlan) : rawPlan[i] \notin Range(plan)})
                  + Cardinality(DOMAIN rawAnswers \ DOMAIN answers))
  /\ [][lastOp' = "import"
          => \A x \in ImportTexts : \A o1, o2 \in BOOLEAN :
               (/\ IsObjectLike(Parsed(x))
                /\ droppedCount(Parsed(x)) > 0
                /\ importProgress(x, o1, o2, FALSE))
                 => UNCHANGED <<recVars, storage>>]_vars

\* C15 witness: the payload with one unknown topic and one answer to an
\* unknown question was imported after the confirmation; one plan entry and
\* one answer remain.
C15_Witness ==
  /\ lastImport # <<>>
  /\ lastImport[1].payload = StalePayload
  /\ plan = <<"mole">>
  /\ answers = ("mole_d1" :> 0)

\* two Day Progress Maps that give every day the same two completion flags
SameDayProgress(a, b) ==
  \A d \in DOMAIN a \cup DOMAIN b : \A f \in {"conceptDone", "practiceDone"} :
    (d \in DOMAIN a /\ BooleanOf(a[d], f)) = (d \in DOMAIN b /\ BooleanOf(b[d], f))

\* C16 (as claimed): when the latest operations are an export and the import
\* of exactly the exported payload, the record has the plan, the Answer Map
\* and the day progress that were exported.
C16_ExportImportRoundTrip ==
  (lastImport # <<>> /\ clipboard # <<>> /\ lastImport[1].payload = clipboard[1])
    => /\ plan = clipboard[1].rec.plan
       /\ answers = clipboard[1].rec.answers
       /\ SameDayProgress(dayProgress, clipboard[1].rec.dayProgress)

\* C17: submitDiagnostic with a question left unanswered raises the
\* incomplete-diagnostic alert naming the position (from 1) of the first
\* unanswered question in the order of the skills, moves the question cursor
\* there, generates no plan and leaves plan, dayIndex, answers, dayProgress
\* and revealed as they were; in the state it leaves, the question at the
\* named position has no answer and every earlier question has one.
C17_IncompleteDiagnosticRefused ==
  /\ [][(submitDiagnostic /\ firstUnanswered(answers) >= 0)
          => /\ alerted' = Alert("incomplete", firstUnanswered(answers) + 1)
             /\ diagIndex' = firstUnanswered(answers)
             /\ UNCHANGED <<plan, dayIndex, answers, dayProgress, revealed>>]_vars
  /\ [][(submitDiagnostic /\ alerted'.kind = "incomplete")
          => /\ alerted'.at \in 1..Len(allQuestions)
             /\ allQuestions[alerted'.at].id \notin DOMAIN answers'
             /\ \A j \in 1..(alerted'.at - 1) :
                  allQuestions[j].id \in DOMAIN answers']_vars

\* only the mole question is answered and the submission was refused at the
\* molar-mass question, the second in topic order; no plan exists
C17_Witness ==
  /\ alerted = Alert("incomplete", 2)
  /\ diagIndex = 1
  /\ DOMAIN answers = {"mole_d1"}
  /\ allQuestions[2].id = "mm_d1"
  /\ plan = <<>>

\* C18: every submitDiagnostic that raises no alert leaves the plan the
\* generator makes from the Answer Map, dayIndex 0, and an empty Day Progress
\* Map and Revealed Map, whatever the record held before.
C18_SubmitStartsFreshPlan ==
  [][(submitDiagnostic /\ alerted' = NoAlert)
       => /\ plan' = pickPlan(computeMastery(SKILLS, answers), PlanDays)
          /\ dayIndex' = 0
          /\ dayProgress' = <<>>
          /\ revealed' = <<>>]_vars

\* the stored record (day 1 complete, so the mount moved to day 2) was
\* submitted again right after the mount: its progress is gone
C18_Witness ==
  /\ lastOp = "user"
  /\ prevOp = "mount"
  /\ storage = Stringify(StoredPlanRecord)
  /\ answers = StoredPlanRecord.answers
  /\ plan = pickPlan(computeMastery(SKILLS, answers), PlanDays)
  /\ Len(plan) = PlanDays
  /\ dayIndex = 0
  /\ dayProgress = <<>>
  /\ revealed = <<>>

\* the ids of a topic list, and whether any of its topics has a diagnostic
\* question
TopicIds(skills) == {skills[i].id : i \in 1..Len(skills)}
HasDiagnostics(skills) == \E i \in 1..Len(skills) : Len(skills[i].diagnostic) > 0

PracticeDone(dp, d) == d \in DOMAIN dp /\ BooleanOf(dp[d], "practiceDone")

\* some practice question of the topic planned for day d is not revealed
SomeUnrevealed(d) ==
  \E i \in 1..Len(SKILLS) :
    /\ d + 1 \in DOMAIN plan
    /\ SKILLS[i].id = plan[d + 1]
    /\ \E k \in 1..Len(SKILLS[i].practice) :
         ~(SKILLS[i].practice[k] \in DOMAIN revealed /\ revealed[SKILLS[i].practice[k]])

\* C20: the practice toggle of a day whose practice step is not done raises
\* the unmet-precondition alert and changes nothing of the record while a
\* practice question of the day's topic is unrevealed; otherwise (all revealed,
\* or no practice question to reveal) it marks the step done; on a day whose
\* step is done it always marks it not done. A successful toggle touches no
\* other day and nothing but the Day Progress Map.
C20_PracticeToggleGated ==
  [][TogglePracticeDone
       => /\ (~PracticeDone(dayProgress, dayIndex) /\ SomeUnrevealed(dayIndex))
               => (alerted'.kind = "unmet" /\ UNCHANGED recVars)
          /\ (~PracticeDone(dayProgress, dayIndex) /\ ~SomeUnrevealed(dayIndex))
               => (alerted' = NoAlert /\ PracticeDone(dayProgress', dayIndex))
          /\ PracticeDone(dayProgress, dayIndex)
               => (alerted' = NoAlert /\ ~PracticeDone(dayProgress', dayIndex))
          /\ \A d \in DOMAIN dayProgress \ {dayIndex} :
               d \in DOMAIN dayProgress' /\ dayProgress'[d] = dayProgress[d]
          /\ UNCHANGED <<plan, answers, revealed>>]_vars

\* the toggle was refused on a day whose practice question is hidden and
\* whose practice step stays not done
C20_Witness ==
  /\ alerted.kind = "unmet"
  /\ SomeUnrevealed(dayIndex)
  /\ ~PracticeDone(dayProgress, dayIndex)
  /\ Len(plan) = PlanDays

\* C21 (as claimed): the practice toggle, the "practice complete" button and
\* the one-click "complete today" button never take a day's practice step
\* from not done to done while a practice question of that day's topic is
\* unrevealed.
C21_PracticeDoneNeedsReveals ==
  [][((TogglePracticeDone \/ PracticeComplete \/ CompleteToday)
        /\ ~PracticeDone(dayProgress, dayIndex)
        /\ PracticeDone(dayProgress', dayIndex))
       => ~SomeUnrevealed(dayIndex)]_vars

\* C22 (as claimed): in every reachable state every entry of the plan is the
\* id of a topic the build ships.
C22_PlanEntriesValid ==
  \A i \in DOMAIN plan : plan[i] \in skillIdSet

\* C23: a confirmed resetProgress leaves an empty plan, dayIndex 0, empty
\* Answer, Day Progress and Revealed Maps, autoNext on, shufflePractice off,
\* savedAt and lastExportedAt empty, and has asked for the removal of the
\* storage key (the key is absent unless the removal threw, and the
\* Storage-Unavailable indicator says which); a declined resetProgress
\* changes neither the record, nor the refs, nor the stored value.
C23_ResetRestoresDefaults ==
  /\ [][resetProgress(TRUE)
          => /\ plan' = <<>> /\ dayIndex' = 0
             /\ answers' = <<>> /\ dayProgress' = <<>> /\ revealed' = <<>>
             /\ autoNext' = TRUE /\ shufflePractice' = FALSE
             /\ savedAt' = NoTime /\ lastExportedAt' = NoTime
             /\ storage' = (IF storageFails THEN storage ELSE Absent)
             /\ storageWritable' = ~storageFails]_vars
  /\ [][resetProgress(FALSE)
          => UNCHANGED <<recVars, refVars, storageWritable, storage>>]_vars

\* right after the mount over a stored plan the user confirmed the reset:
\* the payload of the mount still names the plan, the record is all defaults
\* and the key is gone
C23_Witness ==
  /\ lastOp = "reset"
  /\ prevOp = "mount"
  /\ lastPersistPayloadRef # <<>>
  /\ lastPersistPayloadRef[1].plan = PlanMoleFirst
  /\ Mem = DefaultRecord
  /\ storage = Absent
  /\ storageWritable

\* the diagnostic questions of topic i of the shipped list that have an
\* answer, and those answered correctly
AnsweredOf(i) ==
  {k \in 1..Len(content[i].diagnostic) :
     content[i].diagnostic[k].id \in DOMAIN answers}
CorrectOf(i) ==
  {k \in AnsweredOf(i) :
     answers[content[i].diagnostic[k].id] = content[i].diagnostic[k].answer}

\* C24: for every topic list and Answer Map computeMastery returns, per topic
\* and in the order of the list, total = the number of its diagnostic
\* questions, answered = those with an answer, correct = those answered as
\* keyed, so correct <= answered <= total; mastery is 100 * correct / answered
\* rounded to the nearest integer (half up) when answered > 0 and 0 otherwise,
\* so a topic without questions gives 0, 0, 0, 0 and mastery is in 0..100.
C24_MasteryOverAnswered ==
  calc.days >= 0
    => /\ Len(calc.perSkill) = Len(content)
       /\ \A i \in 1..Len(content) :
            LET m == calc.perSkill[i] IN
            /\ m.skillId = content[i].id
            /\ m.total = Len(content[i].diagnostic)
            /\ m.answered = Cardinality(AnsweredOf(i))
            /\ m.correct = Cardinality(CorrectOf(i))
            /\ m.correct <= m.answered /\ m.answered <= m.total
            /\ m.mastery \in 0..100
            /\ m.answered = 0 => m.mastery = 0
            /\ m.answered > 0
                 => /\ 2 * m.mastery * m.answered <= 200 * m.correct + m.answered
                    /\ 200 * m.correct + m.answered < 2 * (m.mastery + 1) * m.answered

\* one of three questions is unanswered and one of the two answers is right:
\* mastery 50 (not 33), next to a topic without questions
C24_Witness ==
  /\ calc.days = 0
  /\ \E i, j \in 1..Len(calc.perSkill) :
       /\ calc.perSkill[i].total = 3
       /\ calc.perSkill[i].answered = 2
       /\ calc.perSkill[i].correct = 1
       /\ calc.perSkill[i].mastery = 50
       /\ calc.perSkill[j].total = 0
       /\ calc.perSkill[j].mastery = 0

\* C25: for every topic list in which some topic has a diagnostic question,
\* and every Answer Map, pickPlan(perSkill, 7) returns exactly 7 entries, each
\* the id of a topic of the list.
C25_SevenValidEntries ==
  (calc.days = PlanDays /\ HasDiagnostics(content))
    => /\ Len(calc.plan) = PlanDays
       /\ \A d \in 1..PlanDays : calc.plan[d] \in TopicIds(content)

\* seven days over a list of three topics of which two have questions: both
\* of these and only these are planned
C25_Witness ==
  /\ calc.days = PlanDays
  /\ content = << NoDiagnosticTopic, ThreeQuestionTopic, SKILLS[1] >>
  /\ Len(calc.plan) = PlanDays
  /\ Range(calc.plan) = {"stoich", "mole"}

\* the topics pickPlan may use: those with a diagnostic question, or all of
\* them when there is none
Eligible ==
  IF \E i \in 1..Len(calc.perSkill) : calc.perSkill[i].total > 0
  THEN {i \in 1..Len(calc.perSkill) : calc.perSkill[i].total > 0}
  ELSE 1..Len(calc.perSkill)

\* the place of topic i among the eligible ones: after every one of lower
\* mastery and every earlier one of the same mastery
RankOf(i) ==
  1 + Cardinality({u \in Eligible :
                     \/ calc.perSkill[u].mastery < calc.perSkill[i].mastery
                     \/ /\ calc.perSkill[u].mastery = calc.perSkill[i].mastery
                        /\ u < i})

\* C26: pickPlan ranks the eligible topics ascending by mastery with ties in
\* input order and gives day d (from 0) the topic ranked (d mod the number of
\* eligible topics); for no topics at all the plan is empty.
C26_RankedRotation ==
  calc.days > 0
    => IF Len(calc.perSkill) = 0 THEN calc.plan = <<>>
       ELSE /\ Len(calc.plan) = calc.days
            /\ \A d \in 0..(calc.days - 1) :
                 \E i \in Eligible :
                   /\ RankOf(i) = (d % Cardinality(Eligible)) + 1
                   /\ calc.plan[d + 1] = calc.perSkill[i].skillId

\* the claim's example: mole 100 %, molar-mass 0 %, three days
C26_Witness ==
  /\ content = SKILLS
  /\ calc.days = 3
  /\ calc.perSkill[1].skillId = "mole" /\ calc.perSkill[1].mastery = 100
  /\ calc.perSkill[2].skillId = "molar-mass" /\ calc.perSkill[2].mastery = 0
  /\ calc.perSkill[2].answered = 1
  /\ calc.plan = <<"molar-mass", "mole", "molar-mass">>

\* the stored value is absent, unparseable, not an object, or an object with
\* a record field of the wrong type
FailsValidation(v) == v.tag # "object" \/ v.bad \cap RecordFields # {}

\* C27: when the stored value is absent, unparseable, not an object, or has a
\* field of the wrong type, the record the mount yields is the all-defaults
\* record (until the first operation after the mount the key still holds the
\* value that was loaded).
C27_CorruptLoadsDefaults ==
  (lastOp = "mount" /\ now = 1 /\ FailsValidation(storage)) => Mem = DefaultRecord

\* a flush is attempted: the debounce timer fires or the page is hidden while
\* a payload is waiting
FlushAttempted ==
  (PersistTimerFires \/ ForcedFlush) /\ lastPersistPayloadRef # <<>>

\* C28: while every write of this app to the store fails, a flush attempt
\* leaves the Storage-Unavailable indicator showing (storageWritable false)
\* and the record in memory, mutation included, as it was; and the indicator,
\* once showing, keeps showing through every step of the app other than the
\* adoption of a value that another context did succeed in writing.
C28_FailedFlushShowsIndicator ==
  [][storageFails =>
       /\ FlushAttempted => (~storageWritable' /\ Mem' = Mem /\ storage' = storage)
       /\ (~storageWritable /\ ~OnStorage) => ~storageWritable']_vars

\* writes fail, the indicator had been cleared by an adoption, the user then
\* changed the record, and the flush of that change was attempted: the
\* indicator shows again, the record in memory holds the change and the store
\* does not
C28_Witness ==
  /\ storageFails /\ ~storageWritable
  /\ lastOp = "user" /\ prevOp = "adopt"
  /\ ~persistTimer
  /\ lastPersistPayloadRef # <<>>
  /\ Persisted(lastPersistPayloadRef[1]) = Persisted(Mem)
  /\ storage # Stringify(lastPersistPayloadRef[1])

\* C29: an export hands out the current plan, dayIndex, answers, dayProgress,
\* revealed and the two flags as they are, with the version and the export
\* time as metadata; it sets lastExportedAt to the export time and changes no
\* other field of the record, nor the store or the indicator.
C29_ExportFrame ==
  [][MarkExported =>
       /\ Len(clipboard') = 1
       /\ clipboard'[1].tag = "object"
       /\ clipboard'[1].version = CurrentVersion
       /\ Persisted(clipboard'[1].rec) = Persisted(Mem)
       /\ clipboard'[1].rec.lastExportedAt = now
       /\ lastExportedAt' = now
       /\ Persisted(Mem') = Persisted(Mem)
       /\ savedAt' = savedAt
       /\ UNCHANGED <<storage, storageWritable>>]_vars

\* an export of a record with a plan and an answer, made while every write
\* fails and the Storage-Unavailable indicator shows
C29_Witness ==
  /\ clipboard # <<>> /\ lastImport = <<>>
  /\ storageFails /\ ~storageWritable
  /\ Len(plan) > 0 /\ answers # <<>>
  /\ Persisted(clipboard[1].rec) = Persisted(Mem)
  /\ lastExportedAt = clipboard[1].rec.lastExportedAt
  /\ lastExportedAt # NoTime

\* two payloads are objects with the same record fields: the same ones
\* present with the right type, holding the same values
AgreeOnRecordFields(p, q) ==
  /\ p.tag = "object" /\ q.tag = "object"
  /\ p.bad \cap RecordFields = q.bad \cap RecordFields
  /\ \A f \in RecordFields \ p.bad : p.rec[f] = q.rec[f]

\* C30: the record and the stored value a confirmed import of x leaves are
\* those the import of any payload y with the same record fields yields at
\* that instant, whatever the version field of either; a payload without a
\* version is not asked about; a missing savedAt is stamped with the time of
\* the import.
C30_ImportReadsRecordFieldsOnly ==
  [][\A x \in Pasteable :
       (/\ lastImport' = <<x>>
        /\ Parsed(x).tag = "object"
        /\ importProgress(x, TRUE, TRUE, TRUE))
       => /\ \A y \in Pasteable :
               AgreeOnRecordFields(Parsed(x), Parsed(y))
               => /\ Mem' = AfterRender(sanitizedRecord(Parsed(y), now), TRUE, TRUE,
                                        didAutoJumpToNextIncompleteRef,
                                        lastPersistPayloadRef, persistTimer, now).rec
                  /\ storage' = storageSet(storage,
                                           Stringify(sanitizedRecord(Parsed(y), now)),
                                           storageFails)
          /\ "version" \in Parsed(x).bad => ~AsksVersion(x, TRUE)
          /\ "savedAt" \in Parsed(x).bad => savedAt' = now]_vars

\* a bare record was imported and left what its twins with a version field
\* (the number 2, the string "x") leave
C30_Witness ==
  /\ lastImport = << [text |-> <<"{", "m", "}">>, payload |-> BarePayload] >>
  /\ lastOp = "import"
  /\ AgreeOnRecordFields(BarePayload, NewerPayload)
  /\ AgreeOnRecordFields(BarePayload, WordVersionPayload)
  /\ answers = ("mole_d1" :> 0) /\ autoNext = FALSE
  /\ savedAt = 2 /\ lastExportedAt = 1

\* the Answer Map has an answer for every diagnostic question
AnswersComplete == findUnanswered(allQuestions, answers) < 0

\* C31: choosing an answer records it; with auto-advance off nothing else
\* happens; with auto-advance on, the timer of a non-last question moves the
\* cursor one question on, and the timer of the last question submits the
\* Answer Map as it is when it fires, so that a complete Answer Map gives the
\* plan generated from it.
C31_AutoAdvanceSubmitsAnswers ==
  [][/\ ChooseDiagnosticAnswer
          => /\ currentQ.id \in DOMAIN answers'
             /\ plan' = plan /\ diagIndex' = diagIndex
             /\ Len(advanceTimers') = Len(advanceTimers) + (IF autoNext THEN 1 ELSE 0)
     /\ (AutoAdvanceFires /\ ~Head(advanceTimers).isLast)
          => /\ diagIndex' = Min(Len(allQuestions) - 1, diagIndex + 1)
             /\ UNCHANGED recVars
     /\ (AutoAdvanceFires /\ Head(advanceTimers).isLast /\ AnswersComplete)
          => /\ plan' = pickPlan(perSkill, PlanDays)
             /\ alerted' = NoAlert]_vars

\* C32: a confirmed Regenerate plan with a plan present stores the plan
\* generated from the current Answer Map, complete or not, sets dayIndex to 0,
\* empties the Day Progress Map and the Revealed Map and leaves the Answer Map
\* alone; declined, or without a plan, it changes nothing.
C32_RegenerateResetsProgress ==
  [][\A ok \in BOOLEAN :
       regeneratePlan(ok)
       => IF Len(plan) > 0 /\ ok
          THEN /\ plan' = pickPlan(computeMastery(SKILLS, answers), PlanDays)
               /\ dayIndex' = 0
               /\ dayProgress' = <<>> /\ revealed' = <<>>
               /\ answers' = answers
               /\ autoNext' = autoNext /\ shufflePractice' = shufflePractice
               /\ alerted' = NoAlert
          ELSE UNCHANGED <<recVars, refVars, storage, storageWritable>>]_vars

\* a plan of an older build regenerated over an Answer Map that answers none
\* of the current questions
C32_Witness ==
  /\ lastOp = "user" /\ prevOp = "mount"
  /\ plan = PlanMoleFirst
  /\ answers = ("gas_d1" :> 0)
  /\ ~AnswersComplete
  /\ dayIndex = 0 /\ dayProgress = <<>> /\ revealed = <<>>

\* the diagnostic lifecycle: Complete (a plan exists), InProgress (no plan,
\* some answers)
Complete(p) == Len(p) > 0
InProgress(p, a) == Len(p) = 0 /\ a # <<>>

\* C33: no step takes a state with a plan to a state with an empty Plan and a
\* non-empty Answer Map, and Regenerate plan leaves a non-empty Plan.
C33_NoWayBackToInProgress ==
  [][/\ Complete(plan) => ~InProgress(plan', answers')
     /\ (regeneratePlan(TRUE) /\ Complete(plan)) => Complete(plan')]_vars

\* C34: while the confirmed reset is the latest operation on the record and
\* the key is absent, a forced flush (page hidden or unloading) leaves the key
\* absent.
C34_ForcedFlushAfterResetKeepsKeyAbsent ==
  [][(lastOp = "reset" /\ storage = Absent /\ ForcedFlush) => storage' = Absent]_vars

\* nothing but the mount and adoptions of other tabs' writes has happened to
\* the record of this tab
Passive ==
  /\ lastOp \in {"mount", "adopt", "cleared"}
  /\ prevOp \in {"none", "mount", "adopt", "cleared"}

\* C35: as long as no user mutation, import or export has happened in a tab,
\* the stored value changes only by the writes of other tabs.
C35_PassiveTabNeverWrites ==
  [][(Passive /\ Passive' /\ storage' # storage) => ExternalWrite]_vars


\* both tabs hold the record that is stored
TabsAgree ==
  /\ StructurallyValid(storage)
  /\ \A i \in TabIds : Persisted(tabs[i].rec) = Persisted(storage.rec)

\* C36: two tabs share the store and every storage event is delivered; once
\* the user has changed the record in one tab and enters nothing else, the
\* tabs come to hold the same record, the stored one, and keep holding it
C36_TabsConverge == (<>(now > 1) /\ [](now < 3)) => <>[]TabsAgree

\* the stored value is a record that agrees with the one in memory
StoredIsMemory ==
  /\ StructurallyValid(storage)
  /\ Persisted(storage.rec) = Persisted(Mem)

\* C37: storage is writable; when nothing but flushes and cursor moves
\* follows a user mutation, the stored record comes to equal the one in
\* memory and stays equal
C37_MutationReachesStorage ==
  <>[](undisturbed /\ ~storageFails) => <>[]StoredIsMemory

\* a mutation made after an adoption, an import or a reset has been flushed
C37_Witness ==
  /\ undisturbed
  /\ ~storageFails
  /\ prevOp \in SkipOps
  /\ ~persistTimer
  /\ answers # <<>>
  /\ StoredIsMemory

\* operations that empty the Plan and the Answer Map
ClearingOps == {"reset", "restart", "cleared"}

\* C38: an auto-advance timer that fires when the latest operation was a
\* diagnostic reset or restart, a reset of all progress or a deletion in
\* another tab leaves the record as it is, the Plan empty
C38_LateTimerLeavesRecord ==
  [][(AutoAdvanceFires /\ lastOp \in ClearingOps)
       => (Len(plan') = 0 /\ UNCHANGED recVars)]_vars

\* a step in which Submit diagnostic (by the button or by the auto-advance
\* timer) or Regenerate plan stores a plan
PlanStored ==
  \/ submitDiagnostic /\ alerted' = NoAlert
  \/ regeneratePlan(TRUE) /\ Len(plan) > 0
  \/ AutoAdvanceFires /\ Head(advanceTimers).isLast /\ alerted' = NoAlert

\* C39: whenever Submit diagnostic or Regenerate plan succeeds, the plan
\* stored is the one the Plan Generator gives for the mastery of the Answer
\* Map of that moment over seven days
C39_PlanMatchesAnswers ==
  [][PlanStored => plan' = pickPlan(computeMastery(SKILLS, answers'), PlanDays)]_vars

\* C40: in every reachable state the day shown lies between 0 and the last
\* day of the Plan (0 when there is no Plan)
C40_DayIndexInRange ==
  0 <= dayIndex /\ dayIndex <= Max(0, Len(plan) - 1)
====
